---- MODULE Spec2Model ----
(***************************************************************************)
(* Currency converter: the rate proxy (backend, express) and the rate      *)
(* client (the data layer of the mobile app).                              *)
(*                                                                         *)
(* JavaScript values are tagged records [t |-> <type>, v |-> <value>], so  *)
(* that values of different JavaScript types can be stored in one field    *)
(* and compared.  Strings that the code transforms character by character  *)
(* (the base query parameter) are sequences of one-character strings;      *)
(* all other strings are TLA+ strings.                                     *)
(***************************************************************************)
EXTENDS Integers, Sequences, FiniteSets, TLC

VARIABLES
    API_KEY,    \* proxy: process.env.EXCHANGERATE_API_KEY, fixed for a run
    reqs,       \* proxy: the inbound requests, by request id
    twin,       \* two proxy runs given the same requests and upstream results
    apiBaseUrl,     \* client: process.env.EXPO_PUBLIC_API_BASE_URL as last rendered
    currencies,     \* client: useState, the list of currency codes
    currencyNames,  \* client: useState, code -> display name
    rates,          \* client: useState, code -> units per one unit of the base
    usingFallback,  \* client: useState
    loading,        \* client: useState
    cycles,         \* client: the invocations of loadSymbolsAndRates, by number
    started,        \* client: how many times the effect has run
    last,           \* client: what the most recently completed cycle was given
    fromCurrency,   \* converter: useState, the source code
    toCurrency,     \* converter: useState, the target code
    activeInput,    \* converter: useState, the side last edited
    modalVisible,   \* converter: useState, the currency picker is open
    modalTarget,    \* converter: useState, the side the picker chooses for
    derivations     \* the calls of deriveRatesFromFallback made: base and result

clientVars ==
    <<apiBaseUrl, currencies, currencyNames, rates, usingFallback, loading,
      cycles, started, last>>

converterVars == <<fromCurrency, toCurrency, activeInput, modalVisible, modalTarget>>

vars == <<API_KEY, reqs, twin, clientVars, converterVars, derivations>>

\* What a step of the proxy leaves alone, what a step of the two runs does,
\* what a step of the client's fetch cycle does, and what a step of the
\* converter's handlers does.
exceptReqs == <<API_KEY, twin, clientVars, converterVars, derivations>>
exceptTwin == <<API_KEY, reqs, clientVars, converterVars, derivations>>
exceptClient == <<API_KEY, reqs, twin, converterVars, derivations>>
exceptConverter == <<API_KEY, reqs, twin, clientVars, derivations>>
exceptDerivations == <<API_KEY, reqs, twin, clientVars, converterVars>>

-----------------------------------------------------------------------------
(* Bounds *)

MaxReq == 2     \* inbound proxy requests per run (all may be in flight at once)
MaxCycles == 2  \* runs of the client's fetch effect per session
MaxCalls == 2   \* calls of deriveRatesFromFallback on its own

ReqIds == 1..MaxReq
CycleIds == 1..MaxCycles

-----------------------------------------------------------------------------
(* JavaScript values *)

Undefined == [t |-> "undefined"]
Null == [t |-> "null"]
Str(s) == [t |-> "string", v |-> s]
Arr(s) == [t |-> "array", v |-> s]
Obj(o) == [t |-> "object", v |-> o]

\* A number, as the fraction n/d in lowest terms (d > 0).
Num(n, d) == [t |-> "number", n |-> n, d |-> d]

\* JavaScript truthiness of the values the model uses (strings by length:
\* the empty string is falsy; objects and arrays are always truthy).
Truthy(x) ==
    CASE x.t = "undefined" -> FALSE
      [] x.t = "null" -> FALSE
      [] x.t = "string" -> Len(x.v) > 0
      [] x.t = "number" -> x.n # 0
      [] x.t = "boolean" -> x.v
      [] OTHER -> TRUE

-----------------------------------------------------------------------------
(* Strings as character sequences: what the proxy does to the base parameter *)

\* String.prototype.toUpperCase on one character of the alphabet in use.
UpperOf(c) ==
    CASE c = "e" -> "E"
      [] c = "u" -> "U"
      [] c = "r" -> "R"
      [] c = "g" -> "G"
      [] c = "b" -> "B"
      [] c = "p" -> "P"
      [] OTHER -> c

toUpperCase(s) == [i \in 1..Len(s) |-> UpperOf(s[i])]

\* Characters encodeURIComponent leaves alone (letters, digits, - _ . ! ~ * ' ( )),
\* restricted to the characters the model's inputs are built from.
Unreserved ==
    {"e", "u", "r", "g", "b", "p", "E", "U", "R", "G", "B", "P", "S", "D",
     "C", "F", "2", "5", "-", "_", "."}

\* The escape sequence of a reserved character (its UTF-8 byte in hex).
EscapeOf(c) ==
    CASE c = "/" -> <<"%", "2", "F">>
      [] c = "," -> <<"%", "2", "C">>
      [] c = "%" -> <<"%", "2", "5">>
      [] OTHER -> <<"%", "?", "?">>

RECURSIVE encodeURIComponent(_)
encodeURIComponent(s) ==
    IF s = <<>> THEN <<>>
    ELSE (IF Head(s) \in Unreserved THEN <<Head(s)>> ELSE EscapeOf(Head(s)))
         \o encodeURIComponent(Tail(s))

\* .toString() of a query value that is a string: the string itself.
toString(x) == x.v

-----------------------------------------------------------------------------
(* Rate proxy: configuration, requests and responses *)

UPSTREAM_BASE == "https://v6.exchangerate-api.com/v6"

USD == <<"U", "S", "D">>

\* Values of process.env.EXCHANGERATE_API_KEY: unset, empty, or a key.
ApiKeys == <<Undefined, Str(""), Str("key-A")>>

\* Values of req.query.base: absent, empty, a code in lower case, a value in
\* mixed case holding a reserved character.
BaseParams ==
    << Undefined,
       Str(<<>>),
       Str(<<"e", "u", "r">>),
       Str(<<"G", "b", "/">>) >>

\* JSON bodies the upstream provider may send (parsed).
CodesOkBody ==
    Obj([result |-> Str("success"),
         supported_codes |-> Arr(<<Arr(<<"USD", "US Dollar">>), Arr(<<"EUR", "Euro">>)>>)])

RatesOkBody ==
    Obj([result |-> Str("success"),
         base_code |-> Str("USD"),
         conversion_rates |-> Obj([c \in {"USD", "EUR"} |-> IF c = "USD" THEN Num(1, 1) ELSE Num(23, 25)])])

ErrorBody == Obj([result |-> Str("error"), error_type |-> Str("invalid-key")])

\* result is "success" but the payload is missing
BareSuccessBody == Obj([result |-> Str("success")])

UpstreamBodies == <<Null, CodesOkBody, RatesOkBody, ErrorBody, BareSuccessBody>>

\* json?.result
ResultOf(json) ==
    IF json.t = "object" /\ "result" \in DOMAIN json.v THEN json.v.result ELSE Undefined

\* The URL of an outbound call.
Url(key, endpoint, arg) ==
    [base |-> UPSTREAM_BASE, key |-> key, endpoint |-> endpoint, arg |-> arg]

\* What the handler knows of its outbound call: not settled yet, rejected, or
\* resolved to a Response with its ok flag.
Pending == [st |-> "pending", ok |-> FALSE]
Rejected == [st |-> "rejected", ok |-> FALSE]
Resolved(ok) == [st |-> "resolved", ok |-> ok]

\* What the handler knows of the upstream body: not read yet, json() threw,
\* or the parsed value.
Unread == [st |-> "unread", json |-> Undefined]
Threw == [st |-> "threw", json |-> Undefined]
Parsed(json) == [st |-> "parsed", json |-> json]

\* The client's `res.ok ? await res.json() : null` with res.ok false: the body
\* is not read and the value is null.
Skipped == [st |-> "skipped", json |-> Null]

\* A request slot before the request arrives.
IdleReq ==
    [pc |-> "idle", route |-> "none", query |-> Undefined,
     calls |-> <<>>, upstream |-> Pending, body |-> Unread, sent |-> <<>>]

\* res.status(status).json(body): one response written to the client.
Send(r, status, body) ==
    [r EXCEPT !.sent = Append(@, [status |-> status, body |-> body]), !.pc = "done"]

\* fetch(url): one outbound call issued, the handler suspended on it.
Fetch(r, url) == [r EXCEPT !.calls = Append(@, url), !.pc = "awaitFetch"]

ErrorOnly(msg) == Obj([error |-> Str(msg)])

-----------------------------------------------------------------------------
(* Rate proxy: the handlers, as functions of the configured key and the     *)
(* request's own record                                                     *)

\* Mutant of ensureApiKey: tests `API_KEY !== undefined`, so an empty key passes.
ensureApiKey_definedOnly(key, r) ==
    IF key.t # "undefined"
    THEN [ok |-> TRUE, res |-> r]
    ELSE [ok |-> FALSE,
          res |-> Send(r, 500, ErrorOnly("Missing EXCHANGERATE_API_KEY on the backend"))]

\* ensureApiKey: TRUE with a key; otherwise FALSE, having answered 500.
ensureApiKey(key, r) ==
    IF Truthy(key)
    THEN [ok |-> TRUE, res |-> r]
    ELSE [ok |-> FALSE,
          res |-> Send(r, 500, ErrorOnly("Missing EXCHANGERATE_API_KEY on the backend"))]

\* Mutant of GetHealth: the health route guarded by the key like the data routes.
GetHealth_guarded(key, r) ==
    LET r0 == [r EXCEPT !.route = "health"]
        e == ensureApiKey(key, r0)
    IN  IF ~e.ok THEN e.res ELSE Send(r0, 200, Obj([ok |-> TRUE]))

\* app.get('/health')
GetHealth(key, r) == Send([r EXCEPT !.route = "health"], 200, Obj([ok |-> TRUE]))

\* app.get('/codes'), up to the first await
GetCodes(key, r) ==
    LET r0 == [r EXCEPT !.route = "codes"]
        e == ensureApiKey(key, r0)
    IN  IF ~e.ok THEN e.res ELSE Fetch(r0, Url(key.v, "codes", <<>>))

\* Mutant of CodesFetchSettled: a rejected fetch is retried once.
CodesFetchSettled_retry(r, rejected, ok) ==
    IF rejected
    THEN IF Len(r.calls) < 2
         THEN Fetch(r, r.calls[1])
         ELSE Send([r EXCEPT !.upstream = Rejected], 500, ErrorOnly("Failed to fetch codes"))
    ELSE [r EXCEPT !.upstream = Resolved(ok), !.pc = "awaitJson"]

\* Mutant of CodesFetchSettled: the error message names the URL that failed.
CodesFetchSettled_leak(r, rejected, ok) ==
    IF rejected
    THEN Send([r EXCEPT !.upstream = Rejected], 500,
              Obj([error |-> Str("Failed to fetch codes"), url |-> r.calls[1]]))
    ELSE [r EXCEPT !.upstream = Resolved(ok), !.pc = "awaitJson"]

\* app.get('/codes'): `await fetch(url)` settles
CodesFetchSettled(r, rejected, ok) ==
    IF rejected
    THEN Send([r EXCEPT !.upstream = Rejected], 500, ErrorOnly("Failed to fetch codes"))
    ELSE [r EXCEPT !.upstream = Resolved(ok), !.pc = "awaitJson"]

\* Mutant of CodesJsonSettled: `&&` for `||` in the upstream-error test.
CodesJsonSettled_and(r, threw, json) ==
    IF threw
    THEN Send([r EXCEPT !.body = Threw], 500, ErrorOnly("Failed to fetch codes"))
    ELSE LET r1 == [r EXCEPT !.body = Parsed(json)]
         IN  IF ~r.upstream.ok /\ ResultOf(json) # Str("success")
             THEN Send(r1, 502, Obj([error |-> Str("Upstream error"), details |-> json]))
             ELSE Send(r1, 200, json)

\* app.get('/codes'): `await upstream.json()` settles
CodesJsonSettled(r, threw, json) ==
    IF threw
    THEN Send([r EXCEPT !.body = Threw], 500, ErrorOnly("Failed to fetch codes"))
    ELSE LET r1 == [r EXCEPT !.body = Parsed(json)]
         IN  IF ~r.upstream.ok \/ ResultOf(json) # Str("success")
             THEN Send(r1, 502, Obj([error |-> Str("Upstream error"), details |-> json]))
             ELSE Send(r1, 200, json)

\* Mutant of BaseOf: `??` for `||`, so an empty base is not defaulted.
BaseOf_nullish(query) == toUpperCase(IF query.t # "undefined" THEN toString(query) ELSE USD)

\* const base = (req.query.base || 'USD').toString().toUpperCase()
BaseOf(query) == toUpperCase(IF Truthy(query) THEN toString(query) ELSE USD)

\* app.get('/rates'), up to the first await
GetRates(key, r, query) ==
    LET r0 == [r EXCEPT !.route = "rates", !.query = query]
        e == ensureApiKey(key, r0)
    IN  IF ~e.ok THEN e.res
        ELSE Fetch(r0, Url(key.v, "latest", encodeURIComponent(BaseOf(query))))

\* Mutant of RatesFetchSettled: a rejected fetch answered as an upstream error.
RatesFetchSettled_502(r, rejected, ok) ==
    IF rejected
    THEN Send([r EXCEPT !.upstream = Rejected], 502,
              Obj([error |-> Str("Upstream error"), details |-> Null]))
    ELSE [r EXCEPT !.upstream = Resolved(ok), !.pc = "awaitJson"]

\* app.get('/rates'): `await fetch(url)` settles
RatesFetchSettled(r, rejected, ok) ==
    IF rejected
    THEN Send([r EXCEPT !.upstream = Rejected], 500, ErrorOnly("Failed to fetch rates"))
    ELSE [r EXCEPT !.upstream = Resolved(ok), !.pc = "awaitJson"]

\* Mutant of RatesJsonSettled: the success body wrapped instead of relayed.
RatesJsonSettled_wrapped(r, threw, json) ==
    IF threw
    THEN Send([r EXCEPT !.body = Threw], 500, ErrorOnly("Failed to fetch rates"))
    ELSE LET r1 == [r EXCEPT !.body = Parsed(json)]
         IN  IF ~r.upstream.ok \/ ResultOf(json) # Str("success")
             THEN Send(r1, 502, Obj([error |-> Str("Upstream error"), details |-> json]))
             ELSE Send(r1, 200, Obj([data |-> json]))

\* Mutant of RatesJsonSettled: a success body without conversion_rates is
\* answered 502.
RatesJsonSettled_shapeChecked(r, threw, json) ==
    IF threw
    THEN Send([r EXCEPT !.body = Threw], 500, ErrorOnly("Failed to fetch rates"))
    ELSE LET r1 == [r EXCEPT !.body = Parsed(json)]
         IN  IF \/ ~r.upstream.ok
                \/ ResultOf(json) # Str("success")
                \/ "conversion_rates" \notin DOMAIN json.v
             THEN Send(r1, 502, Obj([error |-> Str("Upstream error"), details |-> json]))
             ELSE Send(r1, 200, json)

\* app.get('/rates'): `await upstream.json()` settles
RatesJsonSettled(r, threw, json) ==
    IF threw
    THEN Send([r EXCEPT !.body = Threw], 500, ErrorOnly("Failed to fetch rates"))
    ELSE LET r1 == [r EXCEPT !.body = Parsed(json)]
         IN  IF ~r.upstream.ok \/ ResultOf(json) # Str("success")
             THEN Send(r1, 502, Obj([error |-> Str("Upstream error"), details |-> json]))
             ELSE Send(r1, 200, json)

-----------------------------------------------------------------------------
(* Rate proxy: the state machine.  Requests arrive in any order and their   *)
(* handlers interleave at the awaits.                                       *)

ProxyStart ==
    /\ \E k \in 1..Len(ApiKeys) : API_KEY = ApiKeys[k]
    /\ reqs = [i \in ReqIds |-> IdleReq]

\* The proxy not running (the state of the proxy in the other specifications).
ProxyParked ==
    /\ API_KEY = Undefined
    /\ reqs = [i \in ReqIds |-> IdleReq]

\* Two runs of the proxy that differ only in the configured key.
TwinKeys == <<Str("key-A"), Str("key-B")>>

TwinStart == twin = [n \in 1..2 |-> [API_KEY |-> TwinKeys[n], reqs |-> [i \in ReqIds |-> IdleReq]]]


HealthRequest(i) ==
    /\ reqs[i].pc = "idle"
    /\ reqs' = [reqs EXCEPT ![i] = GetHealth(API_KEY, @)]
    /\ UNCHANGED exceptReqs

CodesRequest(i) ==
    /\ reqs[i].pc = "idle"
    /\ reqs' = [reqs EXCEPT ![i] = GetCodes(API_KEY, @)]
    /\ UNCHANGED exceptReqs

RatesRequest(i) ==
    /\ reqs[i].pc = "idle"
    /\ \E q \in 1..Len(BaseParams) :
          reqs' = [reqs EXCEPT ![i] = GetRates(API_KEY, @, BaseParams[q])]
    /\ UNCHANGED exceptReqs

\* The outbound fetch of request i settles: it rejects (network error), or
\* resolves to a Response whose ok flag is the upstream HTTP status class.
UpstreamFetchSettles(i) ==
    /\ reqs[i].pc = "awaitFetch"
    /\ \E rejected \in BOOLEAN, ok \in BOOLEAN :
          /\ rejected => ok = FALSE
          /\ reqs' = [reqs EXCEPT ![i] =
                IF @.route = "codes" THEN CodesFetchSettled(@, rejected, ok)
                ELSE RatesFetchSettled(@, rejected, ok)]
    /\ UNCHANGED exceptReqs

\* Mutant of UpstreamJsonSettles: the upstream Response is kept in one place
\* shared by all handlers, so the status tested is that of request 1.
UpstreamJsonSettles_sharedResponse(i) ==
    /\ reqs[i].pc = "awaitJson"
    /\ \E b \in 0..Len(UpstreamBodies) :
          LET mixed == [reqs[i] EXCEPT !.upstream = reqs[1].upstream]
              json == IF b = 0 THEN Undefined ELSE UpstreamBodies[b]
              out == IF reqs[i].route = "codes"
                     THEN CodesJsonSettled(mixed, b = 0, json)
                     ELSE RatesJsonSettled(mixed, b = 0, json)
          IN  reqs' = [reqs EXCEPT ![i] = [out EXCEPT !.upstream = reqs[i].upstream]]
    /\ UNCHANGED exceptReqs

\* upstream.json() of request i settles: it throws (the body is not JSON),
\* or yields the parsed body.
UpstreamJsonSettles(i) ==
    /\ reqs[i].pc = "awaitJson"
    /\ \E b \in 0..Len(UpstreamBodies) :
          reqs' = [reqs EXCEPT ![i] =
                IF @.route = "codes"
                THEN CodesJsonSettled(@, b = 0, IF b = 0 THEN Undefined ELSE UpstreamBodies[b])
                ELSE RatesJsonSettled(@, b = 0, IF b = 0 THEN Undefined ELSE UpstreamBodies[b])]
    /\ UNCHANGED exceptReqs

ProxyNext ==
    \E i \in ReqIds :
        \/ HealthRequest(i)
        \/ CodesRequest(i)
        \/ RatesRequest(i)
        \/ UpstreamFetchSettles(i)
        \/ UpstreamJsonSettles(i)


-----------------------------------------------------------------------------
(* Two runs of the proxy side by side: every request and every upstream     *)
(* result is given to both.  A run takes a step only where its own handler  *)
(* is waiting for it.                                                       *)

TwinHealthRequest(i) ==
    /\ \A n \in 1..2 : twin[n].reqs[i].pc = "idle"
    /\ twin' = [n \in 1..2 |->
                  [twin[n] EXCEPT !.reqs[i] = GetHealth(twin[n].API_KEY, @)]]
    /\ UNCHANGED exceptTwin

TwinCodesRequest(i) ==
    /\ \A n \in 1..2 : twin[n].reqs[i].pc = "idle"
    /\ twin' = [n \in 1..2 |->
                  [twin[n] EXCEPT !.reqs[i] = GetCodes(twin[n].API_KEY, @)]]
    /\ UNCHANGED exceptTwin

TwinRatesRequest(i) ==
    /\ \A n \in 1..2 : twin[n].reqs[i].pc = "idle"
    /\ \E q \in 1..Len(BaseParams) :
          twin' = [n \in 1..2 |->
                  [twin[n] EXCEPT !.reqs[i] = GetRates(twin[n].API_KEY, @, BaseParams[q])]]
    /\ UNCHANGED exceptTwin

TwinFetchSettles(i) ==
    /\ \E n \in 1..2 : twin[n].reqs[i].pc = "awaitFetch"
    /\ \E rejected \in BOOLEAN, ok \in BOOLEAN :
          /\ rejected => ok = FALSE
          /\ twin' = [n \in 1..2 |->
                [twin[n] EXCEPT !.reqs[i] =
                    IF @.pc # "awaitFetch" THEN @
                    ELSE IF @.route = "codes" THEN CodesFetchSettled(@, rejected, ok)
                    ELSE RatesFetchSettled(@, rejected, ok)]]
    /\ UNCHANGED exceptTwin

TwinJsonSettles(i) ==
    /\ \E n \in 1..2 : twin[n].reqs[i].pc = "awaitJson"
    /\ \E b \in 0..Len(UpstreamBodies) :
          twin' = [n \in 1..2 |->
                [twin[n] EXCEPT !.reqs[i] =
                    IF @.pc # "awaitJson" THEN @
                    ELSE IF @.route = "codes"
                    THEN CodesJsonSettled(@, b = 0, IF b = 0 THEN Undefined ELSE UpstreamBodies[b])
                    ELSE RatesJsonSettled(@, b = 0, IF b = 0 THEN Undefined ELSE UpstreamBodies[b])]]
    /\ UNCHANGED exceptTwin

TwinNext ==
    \E i \in ReqIds :
        \/ TwinHealthRequest(i)
        \/ TwinCodesRequest(i)
        \/ TwinRatesRequest(i)
        \/ TwinFetchSettles(i)
        \/ TwinJsonSettles(i)


-----------------------------------------------------------------------------
(* Rate client: built-in tables and numbers *)

RECURSIVE Gcd(_, _)
Gcd(a, b) == IF b = 0 THEN a ELSE Gcd(b, a % b)

\* The fraction n/d in lowest terms (n >= 0, d > 0).
Frac(n, d) == LET g == Gcd(n, d) IN Num(n \div g, d \div g)

NumMul(x, y) == Frac(x.n * y.n, x.d * y.d)
NumDiv(x, y) == Frac(x.n * y.d, x.d * y.n)

fallbackCurrencies == <<"USD", "EUR", "GBP", "JPY", "CAD", "AUD", "CHF">>

fallbackNames ==
    [USD |-> Str("US Dollar"), EUR |-> Str("Euro"), GBP |-> Str("British Pound"),
     JPY |-> Str("Japanese Yen"), CAD |-> Str("Canadian Dollar"),
     AUD |-> Str("Australian Dollar"), CHF |-> Str("Swiss Franc")]

\* 1, 0.92, 0.78, 155.8, 1.36, 1.52, 0.86
baseRates ==
    [USD |-> Num(1, 1), EUR |-> Num(23, 25), GBP |-> Num(39, 50), JPY |-> Num(779, 5),
     CAD |-> Num(34, 25), AUD |-> Num(38, 25), CHF |-> Num(43, 50)]

\* Mutant of deriveRatesFromFallback: the table scaled by builtIn[base], not
\* by its inverse.
deriveRatesFromFallback_scaled(base) ==
    IF base \notin DOMAIN baseRates \/ ~Truthy(baseRates[base])
    THEN baseRates
    ELSE [code \in DOMAIN baseRates |-> NumMul(baseRates[base], baseRates[code])]

deriveRatesFromFallback(base) ==
    IF base \notin DOMAIN baseRates \/ ~Truthy(baseRates[base])
    THEN baseRates
    ELSE LET usdPerBase == NumDiv(Num(1, 1), baseRates[base])
         IN  [code \in DOMAIN baseRates |-> NumMul(usdPerBase, baseRates[code])]

-----------------------------------------------------------------------------
(* Rate client: inputs *)

\* Values of EXPO_PUBLIC_API_BASE_URL: unset, empty, an address, an address
\* with a trailing slash.
ApiBaseUrls == <<Undefined, Str(<<>>), Str(<<"p">>), Str(<<"p", "/">>)>>

\* supported_codes with an entry that is not a pair
CodesBadEntryBody ==
    Obj([result |-> Str("success"),
         supported_codes |-> Arr(<<Arr(<<"USD", "US Dollar">>), Null>>)])

\* supported_codes with an entry that has a code and no name
CodesNamelessBody ==
    Obj([result |-> Str("success"),
         supported_codes |-> Arr(<<Arr(<<"USD", "US Dollar">>), Arr(<<"EUR">>)>>)])

\* rates against EUR, the base's own entry not 1
RatesEurBody ==
    Obj([result |-> Str("success"),
         base_code |-> Str("EUR"),
         conversion_rates |-> Obj([EUR |-> Num(2, 1), USD |-> Num(27, 25)])])

\* no base_code, and no entry for the base
RatesNoBaseBody ==
    Obj([result |-> Str("success"),
         conversion_rates |-> Obj([EUR |-> Num(23, 25)])])

\* JSON bodies a /codes response may carry, and a /rates response.
CodesBodies ==
    <<CodesOkBody, ErrorBody, BareSuccessBody, CodesBadEntryBody, CodesNamelessBody>>

RatesBodies ==
    <<RatesOkBody, ErrorBody, BareSuccessBody, RatesEurBody, RatesNoBaseBody>>

-----------------------------------------------------------------------------
(* Rate client: loadSymbolsAndRates *)

\* json?.name
Field(json, name) ==
    IF json.t = "object" /\ name \in DOMAIN json.v THEN json.v[name] ELSE Undefined

\* String.prototype.replace(/\/$/, ''): one trailing slash removed.
StripTrailingSlash(s) ==
    IF Len(s) > 0 /\ s[Len(s)] = "/" THEN SubSeq(s, 1, Len(s) - 1) ELSE s

codesUrl(cfg) == [base |-> StripTrailingSlash(cfg.v), path |-> "/codes"]
ratesUrl(cfg) == [base |-> StripTrailingSlash(cfg.v), path |-> "/rates?base=USD"]

\* The order of Array.prototype.sort() on the codes in use (by UTF-16 code unit).
Alphabetical == <<"AUD", "CAD", "CHF", "EUR", "GBP", "JPY", "USD">>

RankOf(code) == CHOOSE k \in 1..Len(Alphabetical) : Alphabetical[k] = code

RECURSIVE Insert(_, _)
Insert(code, sorted) ==
    IF sorted = <<>> THEN <<code>>
    ELSE IF RankOf(code) < RankOf(Head(sorted)) THEN <<code>> \o sorted
    ELSE <<Head(sorted)>> \o Insert(code, Tail(sorted))

RECURSIVE Sort(_)
Sort(codes) == IF codes = <<>> THEN <<>> ELSE Insert(Head(codes), Sort(Tail(codes)))

\* The state a cycle installs: the five setState calls of one synchronous run.
Installed(cur, names, rt, fb) ==
    [currencies |-> cur, currencyNames |-> names, rates |-> rt,
     usingFallback |-> fb, loading |-> FALSE]

\* deriveRatesFromFallback('USD'), the default rate table of every branch.
fallbackRates == deriveRatesFromFallback("USD")

\* Mutant of NoConfigBranch: setUsingFallback(true) left out.
NoConfigBranch_noFlag ==
    Installed(fallbackCurrencies, fallbackNames, fallbackRates, FALSE)

\* if (!apiBaseUrl) { ... return; }
NoConfigBranch ==
    Installed(fallbackCurrencies, fallbackNames, fallbackRates, TRUE)

\* Mutant of CatchBranch: no finally block, loading left set after an exception.
CatchBranch_stillLoading ==
    [currencies |-> fallbackCurrencies, currencyNames |-> fallbackNames,
     rates |-> fallbackRates, usingFallback |-> TRUE, loading |-> TRUE]

\* catch { ... } finally { setLoading(false) }
CatchBranch ==
    Installed(fallbackCurrencies, fallbackNames, fallbackRates, TRUE)

\* Mutant of codesSuccess: every entry of supported_codes has to be a
\* [code, name] pair.
codesSuccess_properPairs(codesRes, codesJson) ==
    /\ codesRes.ok
    /\ ResultOf(codesJson) = Str("success")
    /\ Field(codesJson, "supported_codes").t = "array"
    /\ \A k \in 1..Len(Field(codesJson, "supported_codes").v) :
          /\ Field(codesJson, "supported_codes").v[k].t = "array"
          /\ Len(Field(codesJson, "supported_codes").v[k].v) = 2

codesSuccess(codesRes, codesJson) ==
    /\ codesRes.ok
    /\ ResultOf(codesJson) = Str("success")
    /\ Field(codesJson, "supported_codes").t = "array"

\* Mutant of ratesSuccess: conversion_rates not looked at.
ratesSuccess_resultOnly(ratesRes, ratesJson) ==
    /\ ratesRes.ok
    /\ ResultOf(ratesJson) = Str("success")

ratesSuccess(ratesRes, ratesJson) ==
    /\ ratesRes.ok
    /\ ResultOf(ratesJson) = Str("success")
    /\ Truthy(Field(ratesJson, "conversion_rates"))

\* pairs.map(([code]) => code) and Object.fromEntries(pairs) throw a TypeError
\* on an entry that is not an array.
PairsThrow(pairs) == \E k \in 1..Len(pairs) : pairs[k].t # "array"

\* pairs.map(([code]) => code).sort()
CodesOf(pairs) == Sort([k \in 1..Len(pairs) |-> pairs[k].v[1]])

\* Mutant of NamesOf: an entry without a name gives no key.
NamesOf_namedOnly(pairs) ==
    [code \in {pairs[k].v[1] : k \in {m \in 1..Len(pairs) : Len(pairs[m].v) >= 2}} |->
        LET k == CHOOSE k \in 1..Len(pairs) :
                    /\ pairs[k].v[1] = code
                    /\ Len(pairs[k].v) >= 2
                    /\ \A m \in (k + 1)..Len(pairs) :
                          pairs[m].v[1] = code => Len(pairs[m].v) < 2
        IN  Str(pairs[k].v[2])]

\* Object.fromEntries(pairs): the last entry of a code gives its name; an entry
\* without a second element gives undefined.
NamesOf(pairs) ==
    [code \in {pairs[k].v[1] : k \in 1..Len(pairs)} |->
        LET k == CHOOSE k \in 1..Len(pairs) :
                    /\ pairs[k].v[1] = code
                    /\ \A m \in (k + 1)..Len(pairs) : pairs[m].v[1] # code
        IN  IF Len(pairs[k].v) >= 2 THEN Str(pairs[k].v[2]) ELSE Undefined]

\* Mutant of RatesOf: the incoming table installed as it came.
RatesOf_unforced(ratesJson) ==
    LET incoming == Field(ratesJson, "conversion_rates")
    IN  IF incoming.t = "object" THEN incoming.v ELSE <<>>

\* { ...incoming, [baseCode]: 1 } with baseCode = base_code || 'USD'
RatesOf(ratesJson) ==
    LET incoming == Field(ratesJson, "conversion_rates")
        spread == IF incoming.t = "object" THEN incoming.v ELSE <<>>
        bc == Field(ratesJson, "base_code")
        baseCode == IF Truthy(bc) THEN bc.v ELSE "USD"
    IN  [code \in DOMAIN spread \cup {baseCode} |->
            IF code = baseCode THEN Num(1, 1) ELSE spread[code]]

\* Mutant of TryBranch: one failed sub-fetch resets both tables to the defaults.
TryBranch_allOrNothing(codesRes, ratesRes, codesJson, ratesJson) ==
    LET cs == codesSuccess(codesRes, codesJson)
        rs == ratesSuccess(ratesRes, ratesJson)
        pairs == Field(codesJson, "supported_codes").v
    IN  IF cs /\ PairsThrow(pairs)
        THEN [threw |-> TRUE, state |-> CatchBranch]
        ELSE IF cs /\ rs
        THEN [threw |-> FALSE,
              state |-> Installed(CodesOf(pairs), NamesOf(pairs), RatesOf(ratesJson), FALSE)]
        ELSE [threw |-> FALSE, state |-> CatchBranch]

\* Mutant of TryBranch: usingFallback cleared when either sub-fetch succeeded.
TryBranch_either(codesRes, ratesRes, codesJson, ratesJson) ==
    LET cs == codesSuccess(codesRes, codesJson)
        rs == ratesSuccess(ratesRes, ratesJson)
        pairs == Field(codesJson, "supported_codes").v
    IN  IF cs /\ PairsThrow(pairs)
        THEN [threw |-> TRUE, state |-> CatchBranch]
        ELSE [threw |-> FALSE,
              state |-> Installed(
                  IF cs THEN CodesOf(pairs) ELSE fallbackCurrencies,
                  IF cs THEN NamesOf(pairs) ELSE fallbackNames,
                  IF rs THEN RatesOf(ratesJson) ELSE fallbackRates,
                  ~(cs \/ rs))]

\* Mutant of TryBranch: a failed codes sub-fetch resets the rate table too.
TryBranch_codesGateRates(codesRes, ratesRes, codesJson, ratesJson) ==
    LET cs == codesSuccess(codesRes, codesJson)
        rs == ratesSuccess(ratesRes, ratesJson)
        pairs == Field(codesJson, "supported_codes").v
    IN  IF cs /\ PairsThrow(pairs)
        THEN [threw |-> TRUE, state |-> CatchBranch]
        ELSE [threw |-> FALSE,
              state |-> Installed(
                  IF cs THEN CodesOf(pairs) ELSE fallbackCurrencies,
                  IF cs THEN NamesOf(pairs) ELSE fallbackNames,
                  IF cs /\ rs THEN RatesOf(ratesJson) ELSE fallbackRates,
                  ~(cs /\ rs))]

\* The body of the try block after both bodies are read: the run throws, or
\* installs each table from its response or from the built-in default.
TryBranch(codesRes, ratesRes, codesJson, ratesJson) ==
    LET cs == codesSuccess(codesRes, codesJson)
        rs == ratesSuccess(ratesRes, ratesJson)
        pairs == Field(codesJson, "supported_codes").v
    IN  IF cs /\ PairsThrow(pairs)
        THEN [threw |-> TRUE, state |-> CatchBranch]
        ELSE [threw |-> FALSE,
              state |-> Installed(
                  IF cs THEN CodesOf(pairs) ELSE fallbackCurrencies,
                  IF cs THEN NamesOf(pairs) ELSE fallbackNames,
                  IF rs THEN RatesOf(ratesJson) ELSE fallbackRates,
                  ~(cs /\ rs))]

-----------------------------------------------------------------------------
(* Rate client: the state machine.  The effect runs on mount and again when *)
(* apiBaseUrl differs from its value at the previous render; an earlier     *)
(* invocation still in flight is not cancelled.  All setState calls of one  *)
(* synchronous run take effect together.                                    *)

NotStarted ==
    [pc |-> "notStarted", requests |-> <<>>, codesRes |-> Pending, ratesRes |-> Pending,
     codesBody |-> Unread]

Done ==
    [pc |-> "done", requests |-> <<>>, codesRes |-> Pending, ratesRes |-> Pending,
     codesBody |-> Unread]

NoLast ==
    [cycle |-> 0, path |-> "none", requests |-> <<>>, codesRes |-> Pending,
     ratesRes |-> Pending, codesBody |-> Unread, ratesBody |-> Unread, fresh |-> FALSE]

\* The state after construction (the useState initial values), the effect not
\* yet run.
ClientStart ==
    /\ \E k \in 1..Len(ApiBaseUrls) : apiBaseUrl = ApiBaseUrls[k]
    /\ currencies = fallbackCurrencies
    /\ currencyNames = fallbackNames
    /\ rates = deriveRatesFromFallback("USD")
    /\ usingFallback = FALSE
    /\ loading = TRUE
    /\ cycles = [c \in CycleIds |-> NotStarted]
    /\ started = 0
    /\ last = NoLast

\* The client not running (its state in the proxy's specifications).
ClientParked ==
    /\ apiBaseUrl = Undefined
    /\ currencies = fallbackCurrencies
    /\ currencyNames = fallbackNames
    /\ rates = deriveRatesFromFallback("USD")
    /\ usingFallback = FALSE
    /\ loading = TRUE
    /\ cycles = [c \in CycleIds |-> NotStarted]
    /\ started = 0
    /\ last = NoLast

Install(st) ==
    /\ currencies' = st.currencies
    /\ currencyNames' = st.currencyNames
    /\ rates' = st.rates
    /\ usingFallback' = st.usingFallback
    /\ loading' = st.loading

\* Cycle c ends: its record is dropped, what it was given is remembered.
Finish(c, path, codesBody, ratesBody) ==
    /\ cycles' = [cycles EXCEPT ![c] = Done]
    /\ last' = [cycle |-> c, path |-> path, requests |-> cycles[c].requests,
                codesRes |-> cycles[c].codesRes, ratesRes |-> cycles[c].ratesRes,
                codesBody |-> codesBody, ratesBody |-> ratesBody, fresh |-> TRUE]

\* loadSymbolsAndRates() up to its first await, with apiBaseUrl = cfg.
StartCycle(c, cfg) ==
    IF ~Truthy(cfg)
    THEN /\ Install(NoConfigBranch)
         /\ cycles' = [cycles EXCEPT ![c] = Done]
         /\ last' = [NoLast EXCEPT !.cycle = c, !.path = "noconfig",
                                    !.requests = cycles[c].requests, !.fresh = TRUE]
    ELSE /\ loading' = TRUE
         /\ UNCHANGED <<currencies, currencyNames, rates, usingFallback>>
         /\ cycles' = [cycles EXCEPT ![c] =
                [@ EXCEPT !.pc = "fetching", !.requests = <<codesUrl(cfg), ratesUrl(cfg)>>]]
         /\ last' = [last EXCEPT !.fresh = FALSE]

\* The effect's first run, after the first render.
Mount ==
    /\ started = 0
    /\ started' = 1
    /\ StartCycle(1, apiBaseUrl)
    /\ UNCHANGED apiBaseUrl
    /\ UNCHANGED exceptClient

\* A render with a different apiBaseUrl: the effect runs again.
ConfigChanges ==
    /\ started \in 1..(MaxCycles - 1)
    /\ started' = started + 1
    /\ \E k \in 1..Len(ApiBaseUrls) :
          /\ ApiBaseUrls[k] # apiBaseUrl
          /\ apiBaseUrl' = ApiBaseUrls[k]
          /\ StartCycle(started + 1, ApiBaseUrls[k])
    /\ UNCHANGED exceptClient

\* Mutant of Catch: a catalog that had been read successfully before the
\* exception is kept.
Catch_keepCatalog(c, codesBody, ratesBody) ==
    LET json == codesBody.json
        pairs == Field(json, "supported_codes").v
        keep == /\ codesBody.st = "parsed"
                /\ codesSuccess(cycles[c].codesRes, json)
                /\ ~PairsThrow(pairs)
    IN  /\ Install(Installed(IF keep THEN CodesOf(pairs) ELSE fallbackCurrencies,
                             IF keep THEN NamesOf(pairs) ELSE fallbackNames,
                             deriveRatesFromFallback("USD"), TRUE))
        /\ Finish(c, "catch", codesBody, ratesBody)

\* Mutant of Catch: no catch block, the exception leaves loadSymbolsAndRates
\* and nothing is set.
Catch_rethrow(c, codesBody, ratesBody) ==
    /\ UNCHANGED <<currencies, currencyNames, rates, usingFallback, loading>>
    /\ Finish(c, "uncaught", codesBody, ratesBody)

\* Mutant of Catch: after a first exception the two requests are issued once
\* more instead of falling back.
Catch_retry(c, codesBody, ratesBody) ==
    IF Len(cycles[c].requests) = 2
    THEN /\ cycles' = [cycles EXCEPT ![c] =
               [pc |-> "fetching", requests |-> cycles[c].requests \o cycles[c].requests,
                codesRes |-> Pending, ratesRes |-> Pending, codesBody |-> Unread]]
         /\ UNCHANGED <<currencies, currencyNames, rates, usingFallback, loading, last>>
    ELSE /\ Install(CatchBranch)
         /\ Finish(c, "catch", codesBody, ratesBody)

\* Promise.all rejected, or a json() call threw: the catch block runs.
Catch(c, codesBody, ratesBody) ==
    /\ Install(CatchBranch)
    /\ Finish(c, "catch", codesBody, ratesBody)

\* fetch(codesUrl) of cycle c settles.
CodesFetchSettles(c) ==
    /\ cycles[c].pc = "fetching"
    /\ cycles[c].codesRes.st = "pending"
    /\ \E rejected \in BOOLEAN, ok \in BOOLEAN :
          /\ rejected => ok = FALSE
          /\ IF rejected
             THEN /\ cycles' = [cycles EXCEPT ![c] = Done]
                  /\ Install(CatchBranch)
                  /\ last' = [cycle |-> c, path |-> "catch", requests |-> cycles[c].requests,
                              codesRes |-> Rejected, ratesRes |-> cycles[c].ratesRes,
                              codesBody |-> Unread, ratesBody |-> Unread, fresh |-> TRUE]
             ELSE /\ cycles' = [cycles EXCEPT ![c] =
                        [@ EXCEPT !.codesRes = Resolved(ok),
                                  !.pc = IF cycles[c].ratesRes.st = "resolved"
                                         THEN "awaitCodesJson" ELSE "fetching"]]
                  /\ UNCHANGED <<currencies, currencyNames, rates, usingFallback, loading, last>>
    /\ UNCHANGED <<apiBaseUrl, started>>
    /\ UNCHANGED exceptClient

\* Mutant of RatesFetchSettles: a rejection that arrives after the codes
\* response is taken as a failed response, and the cycle goes on.
RatesFetchSettles_lateRejection(c) ==
    /\ cycles[c].pc = "fetching"
    /\ cycles[c].ratesRes.st = "pending"
    /\ \E rejected \in BOOLEAN, ok \in BOOLEAN :
          /\ rejected => ok = FALSE
          /\ IF rejected /\ cycles[c].codesRes.st = "pending"
             THEN /\ cycles' = [cycles EXCEPT ![c] = Done]
                  /\ Install(CatchBranch)
                  /\ last' = [cycle |-> c, path |-> "catch", requests |-> cycles[c].requests,
                              codesRes |-> cycles[c].codesRes, ratesRes |-> Rejected,
                              codesBody |-> Unread, ratesBody |-> Unread, fresh |-> TRUE]
             ELSE /\ cycles' = [cycles EXCEPT ![c] =
                        [@ EXCEPT !.ratesRes = IF rejected THEN Rejected ELSE Resolved(ok),
                                  !.pc = IF cycles[c].codesRes.st = "resolved"
                                         THEN "awaitCodesJson" ELSE "fetching"]]
                  /\ UNCHANGED <<currencies, currencyNames, rates, usingFallback, loading, last>>
    /\ UNCHANGED <<apiBaseUrl, started>>
    /\ UNCHANGED exceptClient

\* fetch(ratesUrl) of cycle c settles.
RatesFetchSettles(c) ==
    /\ cycles[c].pc = "fetching"
    /\ cycles[c].ratesRes.st = "pending"
    /\ \E rejected \in BOOLEAN, ok \in BOOLEAN :
          /\ rejected => ok = FALSE
          /\ IF rejected
             THEN /\ cycles' = [cycles EXCEPT ![c] = Done]
                  /\ Install(CatchBranch)
                  /\ last' = [cycle |-> c, path |-> "catch", requests |-> cycles[c].requests,
                              codesRes |-> cycles[c].codesRes, ratesRes |-> Rejected,
                              codesBody |-> Unread, ratesBody |-> Unread, fresh |-> TRUE]
             ELSE /\ cycles' = [cycles EXCEPT ![c] =
                        [@ EXCEPT !.ratesRes = Resolved(ok),
                                  !.pc = IF cycles[c].codesRes.st = "resolved"
                                         THEN "awaitCodesJson" ELSE "fetching"]]
                  /\ UNCHANGED <<currencies, currencyNames, rates, usingFallback, loading, last>>
    /\ UNCHANGED <<apiBaseUrl, started>>
    /\ UNCHANGED exceptClient

\* Mutant of CodesJsonSettles: a catalog read successfully is shown at once,
\* before the rates body is read.
CodesJsonSettles_applyEarly(c) ==
    /\ cycles[c].pc = "awaitCodesJson"
    /\ IF cycles[c].codesRes.ok
       THEN \E b \in 0..Len(CodesBodies) :
               IF b = 0
               THEN Catch(c, Threw, Unread)
               ELSE LET json == CodesBodies[b]
                        pairs == Field(json, "supported_codes").v
                        shown == codesSuccess(cycles[c].codesRes, json) /\ ~PairsThrow(pairs)
                    IN  /\ cycles' = [cycles EXCEPT ![c] =
                              [@ EXCEPT !.codesBody = Parsed(json), !.pc = "awaitRatesJson"]]
                        /\ currencies' = IF shown THEN CodesOf(pairs) ELSE currencies
                        /\ currencyNames' = IF shown THEN NamesOf(pairs) ELSE currencyNames
                        /\ UNCHANGED <<rates, usingFallback, loading, last>>
       ELSE /\ cycles' = [cycles EXCEPT ![c] =
                  [@ EXCEPT !.codesBody = Skipped, !.pc = "awaitRatesJson"]]
            /\ UNCHANGED <<currencies, currencyNames, rates, usingFallback, loading, last>>
    /\ UNCHANGED <<apiBaseUrl, started>>
    /\ UNCHANGED exceptClient

\* const codesJson = codesRes.ok ? await codesRes.json() : null
CodesJsonSettles(c) ==
    /\ cycles[c].pc = "awaitCodesJson"
    /\ IF cycles[c].codesRes.ok
       THEN \E b \in 0..Len(CodesBodies) :
               IF b = 0
               THEN Catch(c, Threw, Unread)
               ELSE /\ cycles' = [cycles EXCEPT ![c] =
                          [@ EXCEPT !.codesBody = Parsed(CodesBodies[b]), !.pc = "awaitRatesJson"]]
                    /\ UNCHANGED <<currencies, currencyNames, rates, usingFallback, loading, last>>
       ELSE /\ cycles' = [cycles EXCEPT ![c] =
                  [@ EXCEPT !.codesBody = Skipped, !.pc = "awaitRatesJson"]]
            /\ UNCHANGED <<currencies, currencyNames, rates, usingFallback, loading, last>>
    /\ UNCHANGED <<apiBaseUrl, started>>
    /\ UNCHANGED exceptClient

\* Mutant of RatesJsonSettles: a source code that the catalog just installed
\* does not list is replaced by the catalog's first code.
RatesJsonSettles_resetSelection(c) ==
    /\ cycles[c].pc = "awaitRatesJson"
    /\ \E b \in 0..Len(RatesBodies) :
          /\ cycles[c].ratesRes.ok \/ b = 1
          /\ IF cycles[c].ratesRes.ok /\ b = 0
             THEN Catch(c, cycles[c].codesBody, Threw)
             ELSE LET ratesBody == IF cycles[c].ratesRes.ok THEN Parsed(RatesBodies[b])
                                   ELSE Skipped
                      out == TryBranch(cycles[c].codesRes, cycles[c].ratesRes,
                                       cycles[c].codesBody.json, ratesBody.json)
                  IN  /\ Install(out.state)
                      /\ Finish(c, IF out.threw THEN "catch" ELSE "try",
                                cycles[c].codesBody, ratesBody)
    /\ fromCurrency' =
          IF \E k \in 1..Len(currencies') : currencies'[k] = fromCurrency
          THEN fromCurrency ELSE currencies'[1]
    /\ UNCHANGED <<apiBaseUrl, started>>
    /\ UNCHANGED <<API_KEY, reqs, twin, derivations>>
    /\ UNCHANGED <<toCurrency, activeInput, modalVisible, modalTarget>>

\* const ratesJson = ratesRes.ok ? await ratesRes.json() : null, and the rest
\* of the function, which has no further await.
RatesJsonSettles(c) ==
    /\ cycles[c].pc = "awaitRatesJson"
    /\ \E b \in 0..Len(RatesBodies) :
          /\ cycles[c].ratesRes.ok \/ b = 1
          /\ IF cycles[c].ratesRes.ok /\ b = 0
             THEN Catch(c, cycles[c].codesBody, Threw)
             ELSE LET ratesBody == IF cycles[c].ratesRes.ok THEN Parsed(RatesBodies[b])
                                   ELSE Skipped
                      out == TryBranch(cycles[c].codesRes, cycles[c].ratesRes,
                                       cycles[c].codesBody.json, ratesBody.json)
                  IN  /\ Install(out.state)
                      /\ Finish(c, IF out.threw THEN "catch" ELSE "try",
                                cycles[c].codesBody, ratesBody)
    /\ UNCHANGED <<apiBaseUrl, started>>
    /\ UNCHANGED exceptClient

ClientNext ==
    \/ Mount
    \/ ConfigChanges
    \/ \E c \in CycleIds :
        \/ CodesFetchSettles(c)
        \/ RatesFetchSettles(c)
        \/ CodesJsonSettles(c)
        \/ RatesJsonSettles(c)

-----------------------------------------------------------------------------
(* Converter: the source and target codes, the picker and the cross rate.   *)
(* The amount strings and the search term of the picker are not modelled.   *)

\* table[code] in JavaScript: undefined for a key the table does not have.
Lookup(table, code) == IF code \in DOMAIN table THEN table[code] ELSE Undefined

\* Mutant of rate: target and source exchanged.
rate_inverted ==
    IF ~Truthy(Lookup(rates, fromCurrency)) \/ ~Truthy(Lookup(rates, toCurrency))
    THEN Num(1, 1)
    ELSE NumDiv(rates[fromCurrency], rates[toCurrency])

\* Mutant of rate: the guard left out, undefined / x and x / undefined are NaN.
rate_unguarded ==
    IF fromCurrency \in DOMAIN rates /\ toCurrency \in DOMAIN rates
    THEN NumDiv(rates[toCurrency], rates[fromCurrency])
    ELSE [t |-> "NaN"]

\* const rate = useMemo(...): the value the render after a step computes.
rate ==
    IF ~Truthy(Lookup(rates, fromCurrency)) \/ ~Truthy(Lookup(rates, toCurrency))
    THEN Num(1, 1)
    ELSE NumDiv(rates[toCurrency], rates[fromCurrency])

\* The useState initial values of the converter.
ConverterStart ==
    /\ fromCurrency = "EUR"
    /\ toCurrency = "USD"
    /\ activeInput = "from"
    /\ modalVisible = FALSE
    /\ modalTarget = "from"

Targets == {"from", "to"}

openModal(target) ==
    /\ modalTarget' = target
    /\ modalVisible' = TRUE
    /\ UNCHANGED <<fromCurrency, toCurrency, activeInput>>
    /\ UNCHANGED exceptConverter

closeModal ==
    /\ modalVisible' = FALSE
    /\ UNCHANGED <<fromCurrency, toCurrency, activeInput, modalTarget>>
    /\ UNCHANGED exceptConverter

\* A row of the picker is pressed: the picker is open and lists currencies.
selectCurrency(code) ==
    /\ modalVisible
    /\ IF modalTarget = "from"
       THEN fromCurrency' = code /\ UNCHANGED toCurrency
       ELSE toCurrency' = code /\ UNCHANGED fromCurrency
    /\ modalVisible' = FALSE
    /\ UNCHANGED <<activeInput, modalTarget>>
    /\ UNCHANGED exceptConverter

swap ==
    /\ fromCurrency' = toCurrency
    /\ toCurrency' = fromCurrency
    /\ activeInput' = "from"
    /\ UNCHANGED <<modalVisible, modalTarget>>
    /\ UNCHANGED exceptConverter

\* setFromValue, setToValue: an amount is typed on one side.
setValue(side) ==
    /\ activeInput' = side
    /\ UNCHANGED <<fromCurrency, toCurrency, modalVisible, modalTarget>>
    /\ UNCHANGED exceptConverter

ConverterNext ==
    \/ \E target \in Targets : openModal(target)
    \/ closeModal
    \/ \E k \in 1..Len(currencies) : selectCurrency(currencies[k])
    \/ swap
    \/ \E side \in Targets : setValue(side)

\* Catalogs and rate tables a fetch cycle can have installed: the built-in
\* ones and those of the sample responses.
Catalogs ==
    <<[codes |-> fallbackCurrencies, names |-> fallbackNames],
      [codes |-> CodesOf(Field(CodesOkBody, "supported_codes").v),
       names |-> NamesOf(Field(CodesOkBody, "supported_codes").v)]>>

RateTables ==
    <<fallbackRates, RatesOf(RatesOkBody), RatesOf(RatesEurBody), RatesOf(RatesNoBaseBody)>>

\* The client between two fetch cycles, showing one of the catalogs and one of
\* the rate tables; the fetch cycle itself is not running.
ClientSettled ==
    /\ apiBaseUrl = Undefined
    /\ \E k \in 1..Len(Catalogs) :
          /\ currencies = Catalogs[k].codes
          /\ currencyNames = Catalogs[k].names
    /\ \E m \in 1..Len(RateTables) : rates = RateTables[m]
    /\ usingFallback = TRUE
    /\ loading = FALSE
    /\ cycles = [c \in CycleIds |-> NotStarted]
    /\ started = 0
    /\ last = NoLast

-----------------------------------------------------------------------------
(* deriveRatesFromFallback called on its own *)

\* Arguments: the keys of the built-in table, and three strings that are not
\* keys of it.
Bases == <<"USD", "EUR", "GBP", "JPY", "CAD", "AUD", "CHF", "XXX", "usd", "">>

NoCalls == derivations = <<>>

CallDerive(base) ==
    /\ Len(derivations) < MaxCalls
    /\ derivations' =
          Append(derivations, [base |-> base, result |-> deriveRatesFromFallback(base)])
    /\ UNCHANGED exceptDerivations

DeriveNext == \E k \in 1..Len(Bases) : CallDerive(Bases[k])

-----------------------------------------------------------------------------
(* Specifications *)

\* The proxy serving MaxReq requests.
ProxyInit == ProxyStart /\ TwinStart /\ ClientParked /\ ConverterStart /\ NoCalls

ProxySpec == ProxyInit /\ [][ProxyNext]_vars

\* Two proxy runs with different keys, side by side.
TwinInit == ProxyParked /\ TwinStart /\ ClientParked /\ ConverterStart /\ NoCalls

TwinSpec == TwinInit /\ [][TwinNext]_vars

\* The client through MaxCycles runs of its effect.
ClientInit == ProxyParked /\ TwinStart /\ ClientStart /\ ConverterStart /\ NoCalls

ClientSpec == ClientInit /\ [][ClientNext]_vars

\* The client with every request settling: a fetch that is pending resolves or
\* rejects, and a body being read is read or fails.  No fairness is put on the
\* configuration changing.
ClientFairSpec ==
    /\ ClientInit
    /\ [][ClientNext]_vars
    /\ \A c \in CycleIds :
          /\ WF_vars(CodesFetchSettles(c))
          /\ WF_vars(RatesFetchSettles(c))
          /\ WF_vars(CodesJsonSettles(c))
          /\ WF_vars(RatesJsonSettles(c))

\* The converter's handlers over each catalog and each rate table.
ConverterInit == ProxyParked /\ TwinStart /\ ClientSettled /\ ConverterStart /\ NoCalls

ConverterSpec == ConverterInit /\ [][ConverterNext]_vars

\* The app from its first render on, the address fixed for the session: the
\* one fetch cycle of the session, with the user at the converter meanwhile.
AppNext ==
    \/ Mount
    \/ \E c \in CycleIds :
        \/ CodesFetchSettles(c)
        \/ RatesFetchSettles(c)
        \/ CodesJsonSettles(c)
        \/ RatesJsonSettles(c)
    \/ \E target \in Targets : openModal(target)
    \/ closeModal
    \/ \E k \in 1..Len(currencies) : selectCurrency(currencies[k])
    \/ swap
    \/ \E side \in Targets : setValue(side)

AppSpec == ClientInit /\ [][AppNext]_vars

\* deriveRatesFromFallback called up to MaxCalls times, on any arguments.
DeriveInit == ProxyParked /\ TwinStart /\ ClientParked /\ ConverterStart /\ NoCalls

DeriveSpec == DeriveInit /\ [][DeriveNext]_vars

-----------------------------------------------------------------------------
(* Properties of the rate proxy *)

DataRoutes == {"codes", "rates"}

\* The fixed message of a data route's catch block.
FailedToFetch(route) ==
    IF route = "codes" THEN ErrorOnly("Failed to fetch codes")
    ELSE ErrorOnly("Failed to fetch rates")

\* The one response of a request that has been answered.
Answered(r) == r.pc = "done" /\ Len(r.sent) = 1

\* C1: with no credential configured (API_KEY unset or empty), every /codes
\* and /rates request is answered 500 with an error body, at once, and has
\* made no outbound call.
C1_NoKeyFails ==
    \A i \in ReqIds :
        (~Truthy(API_KEY) /\ reqs[i].route \in DataRoutes) =>
            /\ Answered(reqs[i])
            /\ reqs[i].sent[1].status = 500
            /\ reqs[i].sent[1].body.t = "object"
            /\ DOMAIN reqs[i].sent[1].body.v = {"error"}
            /\ reqs[i].calls = <<>>

\* C1 witness: an empty key (set but falsy), and both a /codes and a /rates
\* request refused.
C1_Witness ==
    /\ API_KEY = Str("")
    /\ \E i, j \in ReqIds :
          /\ reqs[i].route = "codes" /\ reqs[i].pc = "done"
          /\ reqs[j].route = "rates" /\ reqs[j].pc = "done"

\* C2 as stated: with a credential, whenever the upstream call does not return
\* a success indicator (a non-success HTTP status, or a parsed body whose
\* result is not "success"), the answer is 502 with the upstream body as details.
C2_Original ==
    \A i \in ReqIds :
        LET r == reqs[i] IN
        (/\ r.route \in DataRoutes /\ Truthy(API_KEY) /\ r.pc = "done"
         /\ r.upstream.st = "resolved"
         /\ (~r.upstream.ok \/ (r.body.st = "parsed" /\ ResultOf(r.body.json) # Str("success"))))
        => r.sent = <<[status |-> 502,
                       body |-> Obj([error |-> Str("Upstream error"), details |-> r.body.json])]>>

\* C2 amended: with a credential, whenever the upstream body parses as JSON and
\* the upstream call does not return a success indicator (a non-success HTTP
\* status, or a result that is not "success"), the answer is 502 with body
\* { error, details } where details is the parsed upstream body.
C2_UpstreamError502 ==
    \A i \in ReqIds :
        LET r == reqs[i] IN
        (/\ r.route \in DataRoutes /\ Truthy(API_KEY) /\ r.pc = "done"
         /\ r.body.st = "parsed"
         /\ (~r.upstream.ok \/ ResultOf(r.body.json) # Str("success")))
        => r.sent = <<[status |-> 502,
                       body |-> Obj([error |-> Str("Upstream error"), details |-> r.body.json])]>>

\* C2 witness: a /codes request answered after a non-success HTTP status whose
\* body says "success", and a /rates request answered after a success HTTP
\* status whose body says "error".
C2_Witness ==
    \E i, j \in ReqIds :
        /\ reqs[i].route = "codes" /\ reqs[i].pc = "done"
        /\ reqs[i].upstream = Resolved(FALSE) /\ reqs[i].body = Parsed(CodesOkBody)
        /\ reqs[j].route = "rates" /\ reqs[j].pc = "done"
        /\ reqs[j].upstream = Resolved(TRUE) /\ reqs[j].body = Parsed(ErrorBody)

\* C3: with a credential, if the outbound call itself fails (the fetch rejects,
\* or the body cannot be parsed as JSON), the answer is 500 with the route's
\* fixed message and nothing else.
C3_TransportError500 ==
    \A i \in ReqIds :
        LET r == reqs[i] IN
        (/\ r.route \in DataRoutes /\ Truthy(API_KEY)
         /\ (r.upstream.st = "rejected" \/ r.body.st = "threw"))
        => r.sent = <<[status |-> 500, body |-> FailedToFetch(r.route)]>>

\* C3 witness: one request whose fetch rejected and one whose body did not parse.
C3_Witness ==
    \E i, j \in ReqIds :
        /\ reqs[i].route = "rates" /\ reqs[i].upstream.st = "rejected" /\ reqs[i].pc = "done"
        /\ reqs[j].route = "codes" /\ reqs[j].body.st = "threw" /\ reqs[j].pc = "done"

\* C4: with a credential, when the upstream call returns a success HTTP status
\* and a JSON body with result "success", the answer is 200 with exactly the
\* upstream JSON body.
C4_SuccessRelayed ==
    \A i \in ReqIds :
        LET r == reqs[i] IN
        (/\ r.route \in DataRoutes /\ Truthy(API_KEY) /\ r.pc = "done"
         /\ r.upstream = Resolved(TRUE)
         /\ r.body.st = "parsed" /\ ResultOf(r.body.json) = Str("success"))
        => r.sent = <<[status |-> 200, body |-> r.body.json]>>

\* C4 witness: a /codes and a /rates request each relayed a success body.
C4_Witness ==
    \E i, j \in ReqIds :
        /\ reqs[i].route = "codes" /\ reqs[i].pc = "done"
        /\ reqs[i].upstream = Resolved(TRUE) /\ reqs[i].body = Parsed(CodesOkBody)
        /\ reqs[j].route = "rates" /\ reqs[j].pc = "done"
        /\ reqs[j].upstream = Resolved(TRUE) /\ reqs[j].body = Parsed(RatesOkBody)

\* C5: every /codes or /rates request with a credential has made exactly one
\* upstream call, from its arrival on and whatever the call's outcome; every
\* /health request and every request without a credential has made none.
C5_OneUpstreamCall ==
    \A i \in ReqIds :
        LET r == reqs[i] IN
        /\ (r.route \in DataRoutes /\ Truthy(API_KEY)) => Len(r.calls) = 1
        /\ (r.route = "health" \/ ~Truthy(API_KEY)) => Len(r.calls) = 0

\* C5 witness: with a credential, a request answered after its fetch rejected
\* and a /health request answered.
C5_Witness ==
    /\ Truthy(API_KEY)
    /\ \E i, j \in ReqIds :
          /\ reqs[i].route = "codes" /\ reqs[i].upstream.st = "rejected" /\ reqs[i].pc = "done"
          /\ reqs[j].route = "health" /\ reqs[j].pc = "done"

\* decodeURIComponent, as the upstream server reads a path segment.
UnescapeOf(h1, h2) ==
    CASE h1 = "2" /\ h2 = "F" -> "/"
      [] h1 = "2" /\ h2 = "C" -> ","
      [] h1 = "2" /\ h2 = "5" -> "%"
      [] OTHER -> "?"

RECURSIVE decodeURIComponent(_)
decodeURIComponent(s) ==
    IF s = <<>> THEN <<>>
    ELSE IF Head(s) = "%" /\ Len(s) >= 3
    THEN <<UnescapeOf(s[2], s[3])>> \o decodeURIComponent(SubSeq(s, 4, Len(s)))
    ELSE <<Head(s)>> \o decodeURIComponent(Tail(s))

\* C6: the base that /rates forwards upstream (the last path segment of the
\* outbound URL, decoded) is "USD" when the base parameter is absent or empty,
\* and otherwise the upper-cased value of the base parameter.
C6_BaseForwarded ==
    \A i \in ReqIds :
        LET r == reqs[i] IN
        (r.route = "rates" /\ r.calls # <<>>) =>
            /\ r.calls[1].endpoint = "latest"
            /\ decodeURIComponent(r.calls[1].arg) =
                  IF r.query.t = "undefined" \/ r.query.v = <<>> THEN <<"U", "S", "D">>
                  ELSE [k \in 1..Len(r.query.v) |-> UpperOf(r.query.v[k])]

\* C6 witness: base=eur forwarded, and an empty base forwarded.
C6_Witness ==
    \E i, j \in ReqIds :
        /\ reqs[i].route = "rates" /\ reqs[i].query = Str(<<"e", "u", "r">>)
        /\ reqs[i].calls # <<>> /\ reqs[i].calls[1].arg = <<"E", "U", "R">>
        /\ reqs[j].route = "rates" /\ reqs[j].query = Str(<<>>) /\ reqs[j].calls # <<>>

\* C7: /health is always answered 200 { ok: true }, at once, with or without a
\* credential and whatever the other requests' upstream calls are doing, and
\* makes no upstream call.
C7_HealthAlwaysOk ==
    \A i \in ReqIds :
        reqs[i].route = "health" =>
            /\ reqs[i].pc = "done"
            /\ reqs[i].sent = <<[status |-> 200, body |-> Obj([ok |-> TRUE])]>>
            /\ reqs[i].calls = <<>>

\* C7 witness: /health answered with no credential configured.
C7_Witness ==
    /\ ~Truthy(API_KEY)
    /\ \E i \in ReqIds : reqs[i].route = "health" /\ reqs[i].pc = "done"

\* C8: two runs that differ only in the (non-empty) credential and are given
\* the same requests and the same upstream results have sent the same
\* responses, status and body, for every request.
C8_NoCredentialLeak ==
    \A i \in ReqIds : twin[1].reqs[i].sent = twin[2].reqs[i].sent

\* C8 witness: the two runs hold different keys, made outbound calls to
\* different URLs, and have answered one request 502 and another 500.
C8_Witness ==
    /\ twin[1].API_KEY # twin[2].API_KEY
    /\ \E i, j \in ReqIds :
          /\ Len(twin[1].reqs[i].sent) = 1 /\ Len(twin[1].reqs[j].sent) = 1
          /\ twin[1].reqs[i].sent[1].status = 502
          /\ twin[1].reqs[j].sent[1].status = 500
          /\ twin[1].reqs[i].calls # twin[2].reqs[i].calls

\* The body json has not the shape of the route's payload: no supported_codes
\* list for /codes, no conversion_rates table for /rates.
MalformedShape(route, json) ==
    IF route = "codes"
    THEN ~(json.t = "object" /\ "supported_codes" \in DOMAIN json.v
           /\ json.v.supported_codes.t = "array")
    ELSE ~(json.t = "object" /\ "conversion_rates" \in DOMAIN json.v
           /\ json.v.conversion_rates.t = "object")

\* C24 as stated: with a credential, an upstream body whose result is not
\* "success", or that has not the shape of the route's payload (result
\* "success" but no supported_codes, no conversion_rates), is answered 502 with
\* the upstream body as details, never 200.
C24_Original ==
    \A i \in ReqIds :
        LET r == reqs[i] IN
        (/\ r.route \in DataRoutes /\ Truthy(API_KEY) /\ r.pc = "done"
         /\ r.body.st = "parsed"
         /\ (ResultOf(r.body.json) # Str("success") \/ MalformedShape(r.route, r.body.json)))
        => r.sent = <<[status |-> 502,
                       body |-> Obj([error |-> Str("Upstream error"), details |-> r.body.json])]>>

\* C24 amended: with a credential and a body that parsed, a result that is not
\* "success" is answered 502 with the upstream body as details; the answer is
\* 200 exactly when the upstream HTTP status is a success and result is
\* "success"; the payload's shape is not looked at, so a body with result
\* "success" and no supported_codes or conversion_rates, on a success HTTP
\* status, is answered 200 and relayed as it came.
C24_ProtocolError ==
    \A i \in ReqIds :
        LET r == reqs[i] IN
        (/\ r.route \in DataRoutes /\ Truthy(API_KEY) /\ r.pc = "done"
         /\ r.body.st = "parsed")
        => /\ Len(r.sent) = 1
           /\ (ResultOf(r.body.json) # Str("success")) =>
                 /\ r.sent[1].status = 502
                 /\ r.sent[1].body.v.details = r.body.json
           /\ (r.sent[1].status = 200) <=>
                 (r.upstream.ok /\ ResultOf(r.body.json) = Str("success"))
           /\ (/\ r.upstream.ok
               /\ ResultOf(r.body.json) = Str("success")
               /\ MalformedShape(r.route, r.body.json)) =>
                 r.sent[1] = [status |-> 200, body |-> r.body.json]

\* C24 witness: a /rates request answered 200 with a success body that has no
\* conversion_rates, and a /codes request answered 502 with an error body.
C24_Witness ==
    \E i, j \in ReqIds :
        /\ reqs[i].route = "rates" /\ reqs[i].pc = "done"
        /\ reqs[i].upstream = Resolved(TRUE) /\ reqs[i].body = Parsed(BareSuccessBody)
        /\ reqs[i].sent[1].status = 200
        /\ reqs[j].route = "codes" /\ reqs[j].pc = "done"
        /\ reqs[j].upstream = Resolved(TRUE) /\ reqs[j].body = Parsed(ErrorBody)
        /\ reqs[j].sent[1].status = 502

\* The answer that request r's own route, the configured key and r's own
\* upstream result call for.
OwnAnswer(r) ==
    IF r.route = "health"
    THEN [status |-> 200, body |-> Obj([ok |-> TRUE])]
    ELSE IF ~Truthy(API_KEY)
    THEN [status |-> 500, body |-> ErrorOnly("Missing EXCHANGERATE_API_KEY on the backend")]
    ELSE IF r.upstream.st = "rejected" \/ r.body.st = "threw"
    THEN [status |-> 500, body |-> FailedToFetch(r.route)]
    ELSE IF ~r.upstream.ok \/ ResultOf(r.body.json) # Str("success")
    THEN [status |-> 502,
          body |-> Obj([error |-> Str("Upstream error"), details |-> r.body.json])]
    ELSE [status |-> 200, body |-> r.body.json]

\* C28: a request never has more than one response, and has one exactly when
\* its handler is done; a request that has arrived and is not answered is
\* waiting for its own outbound call (the fetch, or the reading of the body),
\* and each settling of that call moves it on, so that it is answered once its
\* call has settled; the response's status is 200, 500 or 502; it is the answer
\* that the request's own route and own upstream result call for, whatever the
\* other requests in flight are doing.  One step touches one request only, and
\* an answered request is never touched again.
C28_OwnAnswerOnly ==
    /\ [](\A i \in ReqIds :
            LET r == reqs[i] IN
            /\ Len(r.sent) <= 1
            /\ (r.pc = "done") <=> (Len(r.sent) = 1)
            /\ (r.pc # "idle" /\ r.sent = <<>>) =>
                  /\ Len(r.calls) = 1
                  /\ \/ r.pc = "awaitFetch" /\ r.upstream.st = "pending"
                     \/ r.pc = "awaitJson" /\ r.upstream.st = "resolved" /\ r.body.st = "unread"
            /\ r.sent # <<>> =>
                  /\ r.sent[1].status \in {200, 500, 502}
                  /\ r.sent[1] = OwnAnswer(r)
                  /\ Len(r.calls) = 1 => r.upstream.st # "pending"
                  /\ (r.upstream.st = "resolved") => r.body.st # "unread")
    /\ [][\A i, j \in ReqIds : (reqs'[i] # reqs[i] /\ reqs'[j] # reqs[j]) => i = j]_vars
    /\ [][\A i \in ReqIds :
              /\ reqs[i].sent # <<>> => reqs'[i] = reqs[i]
              /\ (reqs[i].pc = "awaitFetch" /\ reqs'[i] # reqs[i])
                    => reqs'[i].pc \in {"awaitJson", "done"}
              /\ (reqs[i].pc = "awaitJson" /\ reqs'[i] # reqs[i])
                    => reqs'[i].pc = "done"]_vars

\* C28 witness: request 1 has been answered 502 on its own error body while
\* request 2, whose fetch resolved with a success status, is still waiting
\* for its body.
C28_Witness ==
    /\ Truthy(API_KEY)
    /\ reqs[1].route = "rates" /\ reqs[2].route = "rates"
    /\ reqs[1].upstream = Resolved(TRUE) /\ reqs[1].body = Parsed(ErrorBody)
    /\ reqs[1].sent[1].status = 502
    /\ reqs[2].pc = "awaitJson" /\ reqs[2].upstream = Resolved(TRUE)
    /\ reqs[2].sent = <<>>

-----------------------------------------------------------------------------
(* Properties of the rate client *)

\* last.fresh: the state is as the most recently completed cycle left it (no
\* later run of the effect has written to it).
JustEnded == last.fresh

\* C9: a fetch cycle run with no backend address configured performs no network
\* request and ends with the built-in catalog (the 7 codes with their names),
\* the built-in rates relative to USD, usingFallback true and loading false.
C9_NoConfigCycle ==
    (JustEnded /\ last.path = "noconfig") =>
        /\ last.requests = <<>>
        /\ currencies = <<"USD", "EUR", "GBP", "JPY", "CAD", "AUD", "CHF">>
        /\ currencyNames =
              [USD |-> Str("US Dollar"), EUR |-> Str("Euro"), GBP |-> Str("British Pound"),
               JPY |-> Str("Japanese Yen"), CAD |-> Str("Canadian Dollar"),
               AUD |-> Str("Australian Dollar"), CHF |-> Str("Swiss Franc")]
        /\ rates =
              [USD |-> Num(1, 1), EUR |-> Num(23, 25), GBP |-> Num(39, 50),
               JPY |-> Num(779, 5), CAD |-> Num(34, 25), AUD |-> Num(38, 25),
               CHF |-> Num(43, 50)]
        /\ usingFallback = TRUE
        /\ loading = FALSE

\* C9 witness: the second run of the effect, with an empty address, has just
\* ended.
C9_Witness ==
    /\ JustEnded /\ last.path = "noconfig" /\ last.cycle = 2
    /\ apiBaseUrl = Str(<<>>)

\* supported_codes is a list of [code, name] pairs.
ValidCodesShape(json) ==
    /\ ResultOf(json) = Str("success")
    /\ Field(json, "supported_codes").t = "array"
    /\ \A k \in 1..Len(Field(json, "supported_codes").v) :
          /\ Field(json, "supported_codes").v[k].t = "array"
          /\ Len(Field(json, "supported_codes").v[k].v) = 2

\* base_code is a code and conversion_rates a table.
ValidRatesShape(json) ==
    /\ ResultOf(json) = Str("success")
    /\ Field(json, "base_code").t = "string"
    /\ Len(Field(json, "base_code").v) > 0
    /\ Field(json, "conversion_rates").t = "object"

\* The most recently completed cycle got a success HTTP status and a valid
\* success body from both sub-fetches.
BothSucceeded ==
    /\ last.codesRes = Resolved(TRUE) /\ last.ratesRes = Resolved(TRUE)
    /\ last.codesBody.st = "parsed" /\ ValidCodesShape(last.codesBody.json)
    /\ last.ratesBody.st = "parsed" /\ ValidRatesShape(last.ratesBody.json)

\* C10: a fetch cycle in which both sub-fetches return a success HTTP status
\* and result "success" with valid shapes ends with the codes and names of
\* supported_codes as catalog, conversion_rates with the entry of base_code set
\* to 1 as rates, usingFallback false and loading false.
C10_BothSucceedLive ==
    (JustEnded /\ BothSucceeded) =>
        LET pairs == Field(last.codesBody.json, "supported_codes").v
            table == Field(last.ratesBody.json, "conversion_rates").v
            base == Field(last.ratesBody.json, "base_code").v
        IN  /\ Len(currencies) = Len(pairs)
            /\ {currencies[k] : k \in 1..Len(currencies)} = {pairs[k].v[1] : k \in 1..Len(pairs)}
            /\ DOMAIN currencyNames = {pairs[k].v[1] : k \in 1..Len(pairs)}
            /\ \A k \in 1..Len(pairs) : currencyNames[pairs[k].v[1]] = Str(pairs[k].v[2])
            /\ DOMAIN rates = DOMAIN table \cup {base}
            /\ rates[base] = Num(1, 1)
            /\ \A code \in DOMAIN table \ {base} : rates[code] = table[code]
            /\ usingFallback = FALSE
            /\ loading = FALSE

\* C10 witness: a cycle has just ended that was given a catalog and a rate
\* table against EUR whose own EUR entry was not 1.
C10_Witness ==
    /\ JustEnded /\ BothSucceeded
    /\ last.codesBody.json = CodesOkBody
    /\ last.ratesBody.json = RatesEurBody

\* The catalog on screen is the built-in one.
BuiltInCatalogShown ==
    /\ currencies = <<"USD", "EUR", "GBP", "JPY", "CAD", "AUD", "CHF">>
    /\ currencyNames =
          [USD |-> Str("US Dollar"), EUR |-> Str("Euro"), GBP |-> Str("British Pound"),
           JPY |-> Str("Japanese Yen"), CAD |-> Str("Canadian Dollar"),
           AUD |-> Str("Australian Dollar"), CHF |-> Str("Swiss Franc")]

\* The rate table in use is the built-in one, relative to USD.
BuiltInRatesShown ==
    rates = [USD |-> Num(1, 1), EUR |-> Num(23, 25), GBP |-> Num(39, 50),
             JPY |-> Num(779, 5), CAD |-> Num(34, 25), AUD |-> Num(38, 25),
             CHF |-> Num(43, 50)]

\* The catalog on screen is the one of the codes response json: its codes, and
\* the name of every entry that carries one.
CatalogShownFrom(json) ==
    LET pairs == Field(json, "supported_codes").v
    IN  /\ Len(currencies) = Len(pairs)
        /\ {currencies[k] : k \in 1..Len(currencies)} = {pairs[k].v[1] : k \in 1..Len(pairs)}
        /\ DOMAIN currencyNames = {pairs[k].v[1] : k \in 1..Len(pairs)}
        /\ \A k \in 1..Len(pairs) :
              Len(pairs[k].v) = 2 => currencyNames[pairs[k].v[1]] = Str(pairs[k].v[2])

\* The rate table in use is the one of the rates response json, the entry of
\* its base (base_code, or USD when it names none) being 1.
RatesShownFrom(json) ==
    LET table == Field(json, "conversion_rates").v
        base == IF Field(json, "base_code").t = "string" THEN Field(json, "base_code").v
                ELSE "USD"
    IN  /\ DOMAIN rates = DOMAIN table \cup {base}
        /\ rates[base] = Num(1, 1)
        /\ \A code \in DOMAIN table \ {base} : rates[code] = table[code]

\* The codes sub-fetch of the most recently completed cycle succeeded: success
\* HTTP status, result "success", supported_codes a list.
LastCodesSucceeded ==
    /\ last.codesRes = Resolved(TRUE)
    /\ last.codesBody.st = "parsed"
    /\ ResultOf(last.codesBody.json) = Str("success")
    /\ Field(last.codesBody.json, "supported_codes").t = "array"

\* The rates sub-fetch of the most recently completed cycle succeeded: success
\* HTTP status, result "success", conversion_rates present.
LastRatesSucceeded ==
    /\ last.ratesRes = Resolved(TRUE)
    /\ last.ratesBody.st = "parsed"
    /\ ResultOf(last.ratesBody.json) = Str("success")
    /\ Field(last.ratesBody.json, "conversion_rates").t = "object"

\* C11: a cycle that ends without an exception and in which exactly one
\* sub-fetch succeeded leaves the successful table as its response gave it, the
\* failed table at its built-in default, and the status fallback (usingFallback
\* true, loading false).
C11_PartialFailure ==
    (JustEnded /\ last.path = "try" /\ (LastCodesSucceeded # LastRatesSucceeded)) =>
        /\ usingFallback = TRUE
        /\ loading = FALSE
        /\ LastCodesSucceeded =>
              CatalogShownFrom(last.codesBody.json) /\ BuiltInRatesShown
        /\ LastRatesSucceeded =>
              RatesShownFrom(last.ratesBody.json) /\ BuiltInCatalogShown

\* C11 witness: a cycle has just ended whose codes response was a success and
\* whose rates response said "error"; the catalog shown is the fetched one.
C11_Witness ==
    /\ JustEnded /\ last.path = "try"
    /\ last.codesRes = Resolved(TRUE) /\ last.codesBody = Parsed(CodesOkBody)
    /\ last.ratesRes = Resolved(TRUE) /\ last.ratesBody = Parsed(ErrorBody)
    /\ currencies = <<"EUR", "USD">>

\* The status label reads "Taux en direct".
Live == loading = FALSE /\ usingFallback = FALSE

\* C12: the status is live only if a cycle has completed and the most recently
\* completed one ended without an exception with both its codes sub-fetch and
\* its rates sub-fetch successful; once a cycle has completed with anything
\* less, usingFallback stays true until another cycle completes.
C12_LiveOnlyIfBothSucceeded ==
    /\ Live => /\ last.cycle # 0
               /\ last.path = "try"
               /\ LastCodesSucceeded
               /\ LastRatesSucceeded
    /\ (last.cycle # 0 /\ ~(last.path = "try" /\ LastCodesSucceeded /\ LastRatesSucceeded))
          => usingFallback = TRUE

\* C12 witness: the status is live on the word of the first cycle, which
\* completed while the second was already fetching.
C12_Witness ==
    /\ Live
    /\ last.cycle = 1
    /\ cycles[2].pc = "fetching"

\* An exception was thrown in the most recently completed cycle: a request
\* rejected, a body did not parse as JSON, or the try block threw on the
\* parsed bodies.
LastThrew ==
    \/ last.codesRes = Rejected
    \/ last.ratesRes = Rejected
    \/ last.codesBody = Threw
    \/ last.ratesBody = Threw
    \/ last.path = "catch"

\* C13: a cycle in which an exception was thrown (a request rejected, or reading
\* a body threw) ends with the built-in catalog, the built-in rates and the
\* status fallback, whatever the other sub-fetch had returned.
C13_ExceptionResetsBoth ==
    (JustEnded /\ LastThrew) =>
        /\ BuiltInCatalogShown
        /\ BuiltInRatesShown
        /\ usingFallback = TRUE
        /\ loading = FALSE

\* C13 witness: a cycle has just ended whose codes response was read as a
\* success and whose rates body then failed to parse.
C13_Witness ==
    /\ JustEnded
    /\ last.codesRes = Resolved(TRUE) /\ last.codesBody = Parsed(CodesOkBody)
    /\ last.ratesRes = Resolved(TRUE) /\ last.ratesBody = Threw
    /\ BuiltInCatalogShown

\* C14: when every request settles, every cycle that has started comes to its
\* end, and the step that ends a cycle leaves loading false, on each path (no
\* address, both succeed, partial failure, exception).
C14_LoadingEnds ==
    /\ \A c \in CycleIds : (started >= c) ~> (cycles[c].pc = "done")
    /\ [][\A c \in CycleIds :
              (cycles[c].pc # "done" /\ cycles'[c].pc = "done") => loading' = FALSE]_vars

\* C14 witness: both cycles have ended, the later one on an exception while
\* reading a body, and loading is false.
C14_Witness ==
    /\ cycles[1].pc = "done"
    /\ cycles[2].pc = "done"
    /\ last.path = "catch"
    /\ last.ratesBody = Threw
    /\ loading = FALSE

\* C17: in every state of the client, the rate table has the key USD and maps
\* it to exactly 1.
C17_UsdIsOne ==
    /\ "USD" \in DOMAIN rates
    /\ rates["USD"] = Num(1, 1)

LastEntriesMalformed ==
    /\ LastCodesSucceeded
    /\ last.ratesBody.st # "threw"
    /\ \E k \in 1..Len(Field(last.codesBody.json, "supported_codes").v) :
          Field(last.codesBody.json, "supported_codes").v[k].t # "array"

\* C20: whatever a cycle was given (HTTP statuses, bodies, a body that is not
\* JSON, supported_codes entries that are not lists, rejected requests), it
\* ends in one of the function's own three exits (the no-address return, the
\* end of the try block, the catch block), every failure having gone to the
\* catch block; it leaves a catalog whose listed codes all have an entry in the
\* names, a rate table that is not empty and holds numbers, loading false and
\* usingFallback true or false.
C20_NoOutcomeFatal ==
    JustEnded =>
        /\ last.path \in {"noconfig", "try", "catch"}
        /\ (\/ last.codesRes = Rejected \/ last.ratesRes = Rejected
            \/ last.codesBody = Threw \/ last.ratesBody = Threw
            \/ LastEntriesMalformed) => last.path = "catch"
        /\ \A k \in 1..Len(currencies) : currencies[k] \in DOMAIN currencyNames
        /\ DOMAIN rates # {}
        /\ \A code \in DOMAIN rates : rates[code].t = "number"
        /\ loading = FALSE
        /\ usingFallback \in BOOLEAN

\* C20 witness: a cycle has just ended that was given a codes response with an
\* entry that is not a list, and a valid rates response; the built-in catalog
\* is shown.
C20_Witness ==
    /\ JustEnded
    /\ last.codesBody = Parsed(CodesBadEntryBody)
    /\ last.ratesBody = Parsed(RatesOkBody)
    /\ last.codesRes = Resolved(TRUE)
    /\ last.ratesRes = Resolved(TRUE)
    /\ BuiltInCatalogShown
    /\ usingFallback = TRUE

\* A sub-fetch of the most recently completed cycle failed: an exception was
\* thrown, or one of the two did not succeed.
LastSubFetchFailed ==
    /\ last.path \in {"try", "catch"}
    /\ (LastThrew \/ ~LastCodesSucceeded \/ ~LastRatesSucceeded)

\* C21 as stated: a cycle in which a sub-fetch failed, by an exception or
\* otherwise, ends with the status fallback and with both the catalog and the
\* rate table at their built-in defaults.
C21_Original ==
    (JustEnded /\ LastSubFetchFailed) =>
        /\ usingFallback = TRUE
        /\ BuiltInCatalogShown
        /\ BuiltInRatesShown

\* C21 amended: a cycle in which a sub-fetch failed ends with the status
\* fallback; the table of a sub-fetch that failed is at its built-in default;
\* both tables are at their defaults when an exception was thrown; without an
\* exception the table of a sub-fetch that succeeded is the one of its
\* response.
C21_FailureForcesFallback ==
    (JustEnded /\ LastSubFetchFailed) =>
        /\ usingFallback = TRUE
        /\ loading = FALSE
        /\ (LastThrew \/ ~LastCodesSucceeded) => BuiltInCatalogShown
        /\ (LastThrew \/ ~LastRatesSucceeded) => BuiltInRatesShown
        /\ (~LastThrew /\ LastCodesSucceeded) => CatalogShownFrom(last.codesBody.json)
        /\ (~LastThrew /\ LastRatesSucceeded) => RatesShownFrom(last.ratesBody.json)

\* C21 witness: a cycle has just ended whose codes request answered a
\* non-success HTTP status and whose rates response was a success; the rate
\* table is the fetched one, the catalog the built-in one.
C21_Witness ==
    /\ JustEnded /\ last.path = "try"
    /\ last.codesRes = Resolved(FALSE) /\ last.codesBody = Skipped
    /\ last.ratesRes = Resolved(TRUE) /\ last.ratesBody = Parsed(RatesOkBody)
    /\ BuiltInCatalogShown
    /\ RatesShownFrom(RatesOkBody)
    /\ ~BuiltInRatesShown

\* The codes sub-fetch of the most recently completed cycle got a non-success
\* HTTP status; it got a success status and a body that parsed and is not a
\* success body.
LastCodesBadStatus == last.codesRes = Resolved(FALSE)

LastCodesBadBody ==
    /\ last.codesRes = Resolved(TRUE)
    /\ last.codesBody.st = "parsed"
    /\ ~LastCodesSucceeded

\* The same of the rates sub-fetch.
LastRatesBadStatus == last.ratesRes = Resolved(FALSE)

LastRatesBadBody ==
    /\ last.ratesRes = Resolved(TRUE)
    /\ last.ratesBody.st = "parsed"
    /\ ~LastRatesSucceeded

\* What a cycle leaves when its rates sub-fetch counts as not successful and
\* nothing else is known of it: the built-in rates, the status fallback, and
\* the catalog as the codes sub-fetch alone decides.
RatesOnlyNotSuccessful ==
    /\ BuiltInRatesShown
    /\ usingFallback = TRUE
    /\ loading = FALSE
    /\ IF LastCodesSucceeded /\ ~LastEntriesMalformed
       THEN CatalogShownFrom(last.codesBody.json)
       ELSE BuiltInCatalogShown

\* The same for the codes sub-fetch.
CodesOnlyNotSuccessful ==
    /\ BuiltInCatalogShown
    /\ usingFallback = TRUE
    /\ loading = FALSE
    /\ IF LastRatesSucceeded
       THEN RatesShownFrom(last.ratesBody.json)
       ELSE BuiltInRatesShown

\* C22 as stated: a non-success HTTP status, a success status with a body that
\* is not a success body, and a success status with a body that does not parse
\* all count as "not successful" for that sub-fetch and nothing more: the
\* cycle ends as the other sub-fetch alone decides.
C22_Original ==
    JustEnded =>
        /\ (LastRatesBadStatus \/ LastRatesBadBody \/ last.ratesBody = Threw)
              => RatesOnlyNotSuccessful
        /\ (LastCodesBadStatus \/ LastCodesBadBody)
              => CodesOnlyNotSuccessful

\* C22 amended: a non-success HTTP status and a success status with a body
\* that parses and is not a success body are treated alike: the sub-fetch's
\* own table is at its built-in default, the status is fallback, and the other
\* table is as the other sub-fetch alone decides.  A body that does not parse
\* is treated otherwise: both tables are at their built-in defaults, whatever
\* the other sub-fetch returned.
C22_BadStatusAsBadBody ==
    JustEnded =>
        /\ (LastRatesBadStatus \/ LastRatesBadBody) => RatesOnlyNotSuccessful
        /\ (LastCodesBadStatus \/ LastCodesBadBody) => CodesOnlyNotSuccessful
        /\ (last.codesBody = Threw \/ last.ratesBody = Threw)
              => BuiltInCatalogShown /\ BuiltInRatesShown /\ usingFallback = TRUE

\* C22 witness: the second cycle has just ended; its codes request answered a
\* success status with a body that has no supported_codes, its rates response
\* was a success; the catalog is the built-in one, the rate table the fetched
\* one.
C22_Witness ==
    /\ JustEnded /\ last.cycle = 2
    /\ LastCodesBadBody
    /\ last.codesBody = Parsed(BareSuccessBody)
    /\ last.ratesBody = Parsed(RatesEurBody)
    /\ BuiltInCatalogShown
    /\ RatesShownFrom(RatesEurBody)
    /\ usingFallback = TRUE

\* The codes response of the most recently completed cycle carried result
\* "success" and a supported_codes list that is not a list of [code, name]
\* pairs, and both bodies were read.
LastPairsImproper ==
    /\ LastCodesSucceeded
    /\ ~ValidCodesShape(last.codesBody.json)
    /\ last.ratesRes.st = "resolved"
    /\ last.ratesBody.st \in {"parsed", "skipped"}

\* C23 as stated: a codes response whose supported_codes holds entries that
\* are not [code, name] pairs is not counted successful, and that affects the
\* catalog only: the catalog is the built-in one, the status fallback, and the
\* rate table is as the rates sub-fetch alone decides.
C23_Original ==
    (JustEnded /\ LastPairsImproper) => CodesOnlyNotSuccessful

\* C23 amended: a sub-fetch is counted successful iff it got a success HTTP
\* status, its body parsed, result is "success", and supported_codes is a list
\* (its entries are not looked at), respectively conversion_rates is present.
\* When nothing threw, each table is the one of its response iff its sub-fetch
\* is counted successful, and the status is live iff both are.  A list with an
\* entry that is not itself a list is counted successful and then throws: both
\* tables end at their built-in defaults.  An entry without a name is
\* accepted: its code is listed, with no name.
C23_SuccessAsCounted ==
    JustEnded =>
        /\ (last.path = "try") =>
              /\ IF LastCodesSucceeded
                 THEN CatalogShownFrom(last.codesBody.json)
                 ELSE BuiltInCatalogShown
              /\ IF LastRatesSucceeded
                 THEN RatesShownFrom(last.ratesBody.json)
                 ELSE BuiltInRatesShown
              /\ usingFallback = ~(LastCodesSucceeded /\ LastRatesSucceeded)
        /\ LastPairsImproper =>
              IF LastEntriesMalformed
              THEN /\ last.path = "catch"
                   /\ BuiltInCatalogShown /\ BuiltInRatesShown /\ usingFallback = TRUE
              ELSE /\ last.path = "try"
                   /\ \A k \in 1..Len(Field(last.codesBody.json, "supported_codes").v) :
                         LET entry == Field(last.codesBody.json, "supported_codes").v[k].v
                         IN  /\ \E m \in 1..Len(currencies) : currencies[m] = entry[1]
                             /\ Len(entry) < 2 => currencyNames[entry[1]] = Undefined

\* C23 witness: a cycle has just ended whose codes response had an entry with
\* a code and no name, and whose rates response was a success; the status is
\* live and the code is listed without a name.
C23_Witness ==
    /\ JustEnded
    /\ last.codesBody = Parsed(CodesNamelessBody)
    /\ last.ratesBody = Parsed(RatesOkBody)
    /\ last.codesRes = Resolved(TRUE)
    /\ last.ratesRes = Resolved(TRUE)
    /\ Live
    /\ currencies = <<"EUR", "USD">>
    /\ currencyNames["EUR"] = Undefined

\* C25: the two requests of a cycle are issued together and are both pending
\* before either settles; no body is read before both have resolved; a cycle
\* that ends leaves a state that is a function of what the two requests gave
\* (rejected, or a status and a body), whichever of the two settled first: the
\* built-in pair and fallback if either rejected or anything threw, and
\* otherwise each table by its own response, with live iff both succeeded.
C25_OrderIrrelevant ==
    /\ \A c \in CycleIds :
          /\ cycles[c].pc \in {"fetching", "awaitCodesJson", "awaitRatesJson"}
                => Len(cycles[c].requests) = 2
          /\ cycles[c].pc = "fetching"
                => (cycles[c].codesRes.st = "pending" \/ cycles[c].ratesRes.st = "pending")
          /\ cycles[c].pc \in {"awaitCodesJson", "awaitRatesJson"}
                => (cycles[c].codesRes.st = "resolved" /\ cycles[c].ratesRes.st = "resolved")
    /\ (JustEnded /\ last.path # "noconfig") =>
          /\ loading = FALSE
          /\ IF \/ last.codesRes = Rejected \/ last.ratesRes = Rejected
                \/ last.codesBody = Threw \/ last.ratesBody = Threw
                \/ LastEntriesMalformed
             THEN BuiltInCatalogShown /\ BuiltInRatesShown /\ usingFallback = TRUE
             ELSE /\ last.codesRes.st = "resolved" /\ last.ratesRes.st = "resolved"
                  /\ IF LastCodesSucceeded
                     THEN CatalogShownFrom(last.codesBody.json)
                     ELSE BuiltInCatalogShown
                  /\ IF LastRatesSucceeded
                     THEN RatesShownFrom(last.ratesBody.json)
                     ELSE BuiltInRatesShown
                  /\ usingFallback = ~(LastCodesSucceeded /\ LastRatesSucceeded)

\* C25 witness: a cycle has just ended in which the rates request resolved
\* first and the codes request then rejected.
C25_Witness ==
    /\ JustEnded
    /\ last.codesRes = Rejected
    /\ last.ratesRes = Resolved(TRUE)
    /\ BuiltInCatalogShown /\ BuiltInRatesShown /\ usingFallback = TRUE

\* Cycle c has started and not ended.
InFlight(c) == cycles[c].pc \in {"fetching", "awaitCodesJson", "awaitRatesJson"}

\* C26: at most one cycle is in flight at any time; the cycle that completed
\* most recently, while nothing has started since, is the one that started
\* most recently (no earlier cycle completes after a later one has written);
\* and, from the first run of the effect on, loading is true exactly while a
\* cycle is in flight.
C26_OneCycleInFlight ==
    /\ \A c, d \in CycleIds : (InFlight(c) /\ InFlight(d)) => c = d
    /\ JustEnded => last.cycle = started
    /\ started > 0 => (loading = TRUE <=> \E c \in CycleIds : InFlight(c))

\* The two GETs of a cycle run with the address cfg: the catalog and the rates
\* against USD, on the address without its trailing slash.
TwoRequests(cfg, requests) ==
    /\ Len(requests) = 2
    /\ requests[1].path = "/codes"
    /\ requests[2].path = "/rates?base=USD"
    /\ requests[1].base = requests[2].base
    /\ requests[1].base \in {cfg.v, SubSeq(cfg.v, 1, Len(cfg.v) - 1)}

\* C27: the first cycle starts on startup; a further cycle starts only in a
\* step that changes the configured address; a cycle started with an address
\* issues one GET for the catalog and one GET for the rates against USD in the
\* step that starts it, and a cycle started without an address issues none;
\* after that step the requests of a cycle never change, whatever fails, and
\* the end of a cycle starts no other.
C27_OneCyclePerAddress ==
    /\ [](\A c \in CycleIds : Len(cycles[c].requests) \in {0, 2})
    /\ [][/\ started' # started =>
                /\ started' = started + 1
                /\ started = 0 \/ apiBaseUrl' # apiBaseUrl
                /\ IF Truthy(apiBaseUrl')
                   THEN /\ cycles'[started'].pc = "fetching"
                        /\ TwoRequests(apiBaseUrl', cycles'[started'].requests)
                   ELSE /\ cycles'[started'].pc = "done"
                        /\ last'.cycle = started' /\ last'.requests = <<>>
          /\ apiBaseUrl' # apiBaseUrl => started' = started + 1
          /\ \A c \in CycleIds :
                cycles'[c].requests # cycles[c].requests =>
                   \/ c = started' /\ started' # started /\ cycles[c].requests = <<>>
                   \/ /\ cycles'[c].pc = "done" /\ cycles'[c].requests = <<>>
                      /\ last'.cycle = c /\ last'.requests = cycles[c].requests
                      /\ started' = started]_vars

\* C27 witness: the second cycle, started when the address changed to one with
\* a trailing slash, has just ended on an exception; it had issued its two
\* requests and nothing more.
C27_Witness ==
    /\ JustEnded /\ last.cycle = 2 /\ last.path = "catch"
    /\ apiBaseUrl = Str(<<"p", "/">>)
    /\ last.requests = <<[base |-> <<"p">>, path |-> "/codes"],
                         [base |-> <<"p">>, path |-> "/rates?base=USD"]>>
    /\ started = 2

-----------------------------------------------------------------------------
(* Properties of the converter *)

\* C15: whenever the source and the target code are both keys of the rate
\* table, the cross rate is table[target] / table[source] (stated by cross
\* multiplication), and it is 1 when source and target are the same code.
C15_CrossRate ==
    (fromCurrency \in DOMAIN rates /\ toCurrency \in DOMAIN rates) =>
        /\ rate.t = "number"
        /\ rate.n * rates[toCurrency].d * rates[fromCurrency].n
              = rate.d * rates[toCurrency].n * rates[fromCurrency].d
        /\ fromCurrency = toCurrency => rate = Num(1, 1)

\* C15 witness: JPY to GBP chosen in the picker over the built-in table, the
\* cross rate being 0.78 / 155.8.
C15_Witness ==
    /\ fromCurrency = "JPY"
    /\ toCurrency = "GBP"
    /\ rates = [USD |-> Num(1, 1), EUR |-> Num(23, 25), GBP |-> Num(39, 50),
                JPY |-> Num(779, 5), CAD |-> Num(34, 25), AUD |-> Num(38, 25),
                CHF |-> Num(43, 50)]
    /\ rate = Num(39, 7790)

\* C16: whenever the source or the target code is not a key of the rate table,
\* the cross rate is the number 1.
C16_MissingCodeIdentity ==
    (fromCurrency \notin DOMAIN rates \/ toCurrency \notin DOMAIN rates) =>
        rate = Num(1, 1)

\* C16 witness: GBP chosen as source from the built-in catalog while the rate
\* table is a fetched one that has only USD and EUR.
C16_Witness ==
    /\ fromCurrency = "GBP"
    /\ toCurrency = "EUR"
    /\ DOMAIN rates = {"USD", "EUR"}
    /\ rate = Num(1, 1)

-----------------------------------------------------------------------------
(* Properties of deriveRatesFromFallback *)

\* 1, 0.92, 0.78, 155.8, 1.36, 1.52, 0.86: units per one US Dollar.
BuiltInTable ==
    [USD |-> Num(1, 1), EUR |-> Num(23, 25), GBP |-> Num(39, 50), JPY |-> Num(779, 5),
     CAD |-> Num(34, 25), AUD |-> Num(38, 25), CHF |-> Num(43, 50)]

\* C18: for every base that is a key of the built-in table, the table that
\* deriveRatesFromFallback(base) returns has the keys of the built-in table,
\* every entry is (1 / builtIn[base]) * builtIn[code] (stated by cross
\* multiplication), the entry of base is 1, and for base USD the result is the
\* built-in table.
C18_DerivedTable ==
    \A k \in 1..Len(derivations) :
        LET base == derivations[k].base
            result == derivations[k].result
        IN  base \in DOMAIN BuiltInTable =>
                /\ DOMAIN result = DOMAIN BuiltInTable
                /\ \A code \in DOMAIN BuiltInTable :
                      /\ result[code].t = "number"
                      /\ result[code].n * BuiltInTable[base].n * BuiltInTable[code].d
                            = result[code].d * BuiltInTable[base].d * BuiltInTable[code].n
                /\ result[base] = Num(1, 1)
                /\ base = "USD" => result = BuiltInTable

\* C18 witness: the function has been called for JPY and for USD; the JPY
\* table maps EUR to 0.92 / 155.8.
C18_Witness ==
    /\ Len(derivations) = 2
    /\ derivations[1].base = "JPY"
    /\ derivations[1].result["EUR"] = Num(23, 3895)
    /\ derivations[2].base = "USD"

-----------------------------------------------------------------------------
(* Properties of the app: the fetch cycle and the converter together *)

\* C29: no step of a fetch cycle (its start, a request settling, a body read,
\* its end on any path) changes the source code, the target code or the side
\* last edited, also when the catalog or the rate table it installs does not
\* hold the selected codes; whenever the rate table lacks a selected code the
\* cross rate is 1.
C29_CycleKeepsSelection ==
    /\ [][(cycles' # cycles \/ currencies' # currencies \/ rates' # rates) =>
              /\ fromCurrency' = fromCurrency
              /\ toCurrency' = toCurrency
              /\ activeInput' = activeInput]_vars
    /\ []((fromCurrency \notin DOMAIN rates \/ toCurrency \notin DOMAIN rates)
              => rate = Num(1, 1))

\* C29 witness: JPY was chosen as source and the target side was edited while
\* the requests were pending; the cycle has just ended with a catalog and a
\* rate table that have no JPY; the selection is as it was and the cross rate
\* is 1.
C29_Witness ==
    /\ JustEnded /\ last.path = "try"
    /\ fromCurrency = "JPY" /\ toCurrency = "USD" /\ activeInput = "to"
    /\ currencies = <<"EUR", "USD">>
    /\ "JPY" \notin DOMAIN rates
    /\ rate = Num(1, 1)

====
